---- MODULE Spec2Model ----
(***************************************************************************)
(* A model of tiff-core: the in-memory byte source, the cursor reader, the *)
(* header parser, the directory (IFD) reader, the directory-chain walk of  *)
(* TiffFile::from_reader, the tag value decoder and the directory queries. *)
(*                                                                         *)
(* Bytes are naturals 0..255, a source is a sequence of bytes (1-based in  *)
(* the model, 0-based offsets in the code: byte at offset k is data[k+1]). *)
(* A Result is a record whose field kind is "Ok", the name of a TiffError  *)
(* variant, or "Panic" (the thread unwinds: arithmetic overflow under      *)
(* overflow checks, or a slice index out of range).                        *)
(***************************************************************************)
EXTENDS Integers, Sequences, FiniteSets, TLC

VARIABLES
    full,             \* the complete file the source was cut from
    data,             \* InMemorySource.data
    overflow_checks,  \* build profile: TRUE = overflow panics, FALSE = wraps
    position,         \* TiffReader.position
    touched,          \* highest end index of any slice of data read so far
    pc,               \* control point of the running operation
    header,           \* TiffFile.header (from_reader local)
    ifds,             \* TiffFile.ifds   (from_reader local)
    ifd_offset,       \* from_reader local
    call,             \* the last API call and its arguments
    result,           \* what the last call returned
    reads             \* the source reads (offset, count) of the last parse_tag_value

vars == <<full, data, overflow_checks, position, touched, pc, header, ifds,
          ifd_offset, call, result, reads>>

-----------------------------------------------------------------------------
(* Bounds of the model *)

\* the walk is explored up to this many collected directories
MaxIfds == 3
\* entries per directory block of a generated file
MaxEntries == 1
\* entries of the directory in a source handed to a single call
MaxDirEntries == 2

-----------------------------------------------------------------------------
(* Machine words *)

\* usize::MAX, scaled to the largest integer TLC represents (2^31 - 1)
UsizeMax == 2147483647

\* a + b on usize: panics under overflow checks, wraps otherwise
usize_add(a, b) ==
    IF a > UsizeMax - b
    THEN IF overflow_checks
         THEN [panic |-> TRUE, v |-> 0]
         ELSE [panic |-> FALSE, v |-> a - (UsizeMax - b) - 1]
    ELSE [panic |-> FALSE, v |-> a + b]

Max(a, b) == IF a >= b THEN a ELSE b

-----------------------------------------------------------------------------
(* Results and errors (error.rs) *)

Ok(v) == [kind |-> "Ok", value |-> v]
Panic == [kind |-> "Panic"]
InsufficientData(op, n, a) ==
    [kind |-> "InsufficientData", operation |-> op, needed |-> n, available |-> a]
InvalidMagic(f) == [kind |-> "InvalidMagic", found |-> f]
InvalidByteOrder(f) == [kind |-> "InvalidByteOrder", found |-> f]
OutOfBounds(i, m) == [kind |-> "OutOfBounds", index |-> i, max |-> m]

IsOk(r) == r.kind = "Ok"

-----------------------------------------------------------------------------
(* Endian (header.rs) *)

\* mutant: the bytes are always read least-significant first
Endian_read_u16_native(endian, b) == b[1] + 256 * b[2]

Endian_read_u16(endian, b) ==
    IF endian = "Little" THEN b[1] + 256 * b[2]
                         ELSE 256 * b[1] + b[2]

\* mutant: the bytes are always read least-significant first
Endian_read_u32_native(endian, b) ==
    b[1] + 256 * b[2] + 65536 * b[3] + 16777216 * b[4]

Endian_read_u32(endian, b) ==
    IF endian = "Little"
    THEN b[1] + 256 * b[2] + 65536 * b[3] + 16777216 * b[4]
    ELSE 16777216 * b[1] + 65536 * b[2] + 256 * b[3] + b[4]

\* mutant: only the first marker byte is looked at
Endian_from_first_byte(bytes) ==
    IF Len(bytes) < 2
    THEN InsufficientData("reading byte order", 2, Len(bytes))
    ELSE IF bytes[1] = 73 THEN Ok("Little")
    ELSE IF bytes[1] = 77 THEN Ok("Big")
    ELSE InvalidByteOrder(<<bytes[1], bytes[2]>>)

Endian_from_bytes(bytes) ==
    IF Len(bytes) < 2
    THEN InsufficientData("reading byte order", 2, Len(bytes))
    ELSE IF bytes[1] = 73 /\ bytes[2] = 73 THEN Ok("Little")
    ELSE IF bytes[1] = 77 /\ bytes[2] = 77 THEN Ok("Big")
    ELSE InvalidByteOrder(<<bytes[1], bytes[2]>>)

-----------------------------------------------------------------------------
(* TiffHeader (header.rs) *)

SIZE == 8
MAGIC_NUMBER == 42

\* the checks of parse after the length check, given the byte order found
parse_with(endian, bytes) ==
    IF Endian_read_u16(endian, <<bytes[3], bytes[4]>>) # MAGIC_NUMBER
    THEN InvalidMagic(Endian_read_u16(endian, <<bytes[3], bytes[4]>>))
    ELSE Ok([endian |-> endian,
             magic |-> Endian_read_u16(endian, <<bytes[3], bytes[4]>>),
             ifd_offset |-> Endian_read_u32(endian,
                                <<bytes[5], bytes[6], bytes[7], bytes[8]>>)])

\* mutant: the byte order is looked for before the length is checked
TiffHeader_parse_order_first(bytes) ==
    LET endian == Endian_from_bytes(SubSeq(bytes, 1, IF Len(bytes) < 2 THEN Len(bytes) ELSE 2)) IN
    IF ~IsOk(endian) THEN endian
    ELSE IF Len(bytes) < SIZE
    THEN InsufficientData("reading TIFF header", SIZE, Len(bytes))
    ELSE parse_with(endian.value, bytes)

TiffHeader_parse(bytes) ==
    IF Len(bytes) < SIZE
    THEN InsufficientData("reading TIFF header", SIZE, Len(bytes))
    ELSE LET endian == Endian_from_bytes(SubSeq(bytes, 1, 2)) IN
         IF ~IsOk(endian) THEN endian ELSE parse_with(endian.value, bytes)

-----------------------------------------------------------------------------
(* InMemorySource (reader.rs) *)

\* &d[a..b]: the slice, or a panic when the range is not inside d
Slice(d, a, b) ==
    IF a > b \/ b > Len(d) THEN Panic ELSE Ok(SubSeq(d, a + 1, b))

\* d[i] is inside d
InRange(d, i) == i < Len(d)

\* mutant: a range that runs past the end is cut at the end
InMemorySource_read_bytes_at_clamped(d, offset, count) ==
    LET end == usize_add(offset, count) IN
    IF end.panic THEN Panic
    ELSE IF offset > Len(d) THEN OutOfBounds(end.v, Len(d))
    ELSE IF end.v > Len(d) THEN Slice(d, offset, Len(d))
    ELSE Slice(d, offset, end.v)

InMemorySource_read_bytes_at(d, offset, count) ==
    LET end == usize_add(offset, count) IN
    IF end.panic THEN Panic
    ELSE IF end.v > Len(d) THEN OutOfBounds(end.v, Len(d))
    ELSE Slice(d, offset, end.v)

InMemorySource_read_u16_at(d, offset, endian) ==
    LET end == usize_add(offset, 2) IN
    IF end.panic THEN Panic
    ELSE IF end.v > Len(d) THEN OutOfBounds(end.v, Len(d))
    ELSE IF ~(InRange(d, offset) /\ InRange(d, offset + 1)) THEN Panic
    ELSE Ok(Endian_read_u16(endian, <<d[offset + 1], d[offset + 2]>>))

\* mutant: the bounds check is off by one (offset + 3 for offset + 4)
InMemorySource_read_u32_at_off_by_one(d, offset, endian) ==
    LET end == usize_add(offset, 3) IN
    IF end.panic THEN Panic
    ELSE IF end.v > Len(d) THEN OutOfBounds(end.v, Len(d))
    ELSE IF ~(InRange(d, offset) /\ InRange(d, offset + 3)) THEN Panic
    ELSE Ok(Endian_read_u32(endian, <<d[offset + 1], d[offset + 2],
                                      d[offset + 3], d[offset + 4]>>))

InMemorySource_read_u32_at(d, offset, endian) ==
    LET end == usize_add(offset, 4) IN
    IF end.panic THEN Panic
    ELSE IF end.v > Len(d) THEN OutOfBounds(end.v, Len(d))
    ELSE IF ~(InRange(d, offset) /\ InRange(d, offset + 3)) THEN Panic
    ELSE Ok(Endian_read_u32(endian, <<d[offset + 1], d[offset + 2],
                                      d[offset + 3], d[offset + 4]>>))

-----------------------------------------------------------------------------
(* TiffReader (reader.rs): a reader state r is [position, touched]; every   *)
(* operation returns [res, r]: its Result and the reader state it leaves.   *)

Reader(p, t) == [position |-> p, touched |-> t]

\* the `?` operator: go on with F when step x succeeded, return its error
\* (and the reader state it left) otherwise
AndThen(x, F(_)) == IF IsOk(x.res) THEN F(x) ELSE x

\* self.position += n after a read that returned v
Advance(r, n, v) ==
    [res |-> v, r |-> Reader(r.position + n, Max(r.touched, r.position + n))]

\* mutant: the cursor moves whether the read succeeded or not
Stateful_always_advances(r, n, v) == Advance(r, n, v)

\* a source read at the cursor: advance on success, leave the cursor on error
Stateful(r, n, v) == IF IsOk(v) THEN Advance(r, n, v) ELSE [res |-> v, r |-> r]

\* mutant: the target is not compared with the length
seek_unbounded(d, r, p) == [res |-> Ok(<<>>), r |-> Reader(p, r.touched)]

seek(d, r, p) ==
    IF p > Len(d)
    THEN [res |-> OutOfBounds(p, Len(d)), r |-> r]
    ELSE [res |-> Ok(<<>>), r |-> Reader(p, r.touched)]

read_u16(d, r, endian) ==
    Stateful(r, 2, InMemorySource_read_u16_at(d, r.position, endian))

read_u32(d, r, endian) ==
    Stateful(r, 4, InMemorySource_read_u32_at(d, r.position, endian))

read_bytes(d, r, count) ==
    Stateful(r, count, InMemorySource_read_bytes_at(d, r.position, count))

read_header(d, r) ==
    AndThen(read_bytes(d, r, SIZE), LAMBDA header_bytes :
        [res |-> TiffHeader_parse(header_bytes.res.value), r |-> header_bytes.r])

-----------------------------------------------------------------------------
(* IFD reading (ifd.rs) *)

IfdEntry(tag, field_type, count, value_offset) ==
    [tag |-> tag, field_type |-> field_type, count |-> count,
     value_offset |-> value_offset]

ImageFileDirectory(entries, next_ifd_offset) ==
    [entries |-> entries, next_ifd_offset |-> next_ifd_offset]

\* mutant: value_offset is read before count
read_ifd_entry_value_first(d, r, endian) ==
    AndThen(read_u16(d, r, endian), LAMBDA tag :
    AndThen(read_u16(d, tag.r, endian), LAMBDA field_type :
    AndThen(read_u32(d, field_type.r, endian), LAMBDA value_offset :
    AndThen(read_u32(d, value_offset.r, endian), LAMBDA count :
        [res |-> Ok(IfdEntry(tag.res.value, field_type.res.value,
                             count.res.value, value_offset.res.value)),
         r |-> count.r]))))

read_ifd_entry(d, r, endian) ==
    AndThen(read_u16(d, r, endian), LAMBDA tag :
    AndThen(read_u16(d, tag.r, endian), LAMBDA field_type :
    AndThen(read_u32(d, field_type.r, endian), LAMBDA count :
    AndThen(read_u32(d, count.r, endian), LAMBDA value_offset :
        [res |-> Ok(IfdEntry(tag.res.value, field_type.res.value,
                             count.res.value, value_offset.res.value)),
         r |-> value_offset.r]))))

\* the loop `for _ in 0..num_entries`: todo iterations left, entries so far
RECURSIVE read_entries(_, _, _, _, _)
read_entries(d, r, endian, todo, entries) ==
    IF todo = 0 THEN [res |-> Ok(entries), r |-> r]
    ELSE AndThen(read_ifd_entry(d, r, endian), LAMBDA entry :
            read_entries(d, entry.r, endian, todo - 1,
                         Append(entries, entry.res.value)))

read_ifd(d, r, offset, endian) ==
    AndThen(seek(d, r, offset), LAMBDA sk :
    AndThen(read_u16(d, sk.r, endian), LAMBDA num_entries :
    AndThen(read_entries(d, num_entries.r, endian, num_entries.res.value, <<>>),
            LAMBDA entries :
    AndThen(read_u32(d, entries.r, endian), LAMBDA next_ifd_offset :
        [res |-> Ok(ImageFileDirectory(entries.res.value,
                                       next_ifd_offset.res.value)),
         r |-> next_ifd_offset.r]))))

-----------------------------------------------------------------------------
(* Tag value decoder (ifd.rs). A TagValue is [variant, elems]; a String is  *)
(* the sequence of its UTF-8 bytes; an f32 is kept as its bit pattern and   *)
(* an f64 or u64 as the pair of its high and low 32 bits.                   *)

InvalidFieldType(f) == [kind |-> "InvalidFieldType", found |-> f]
InvalidString(c) == [kind |-> "InvalidString", context |-> c]

Min(a, b) == IF a <= b THEN a ELSE b

\* mutant: a code that names no field type is taken to be Byte
FieldType_from_u16_default(value) ==
    CASE value = 1 -> Ok("Byte")
      [] value = 2 -> Ok("Ascii")
      [] value = 3 -> Ok("Short")
      [] value = 4 -> Ok("Long")
      [] value = 5 -> Ok("Rational")
      [] value = 6 -> Ok("SByte")
      [] value = 7 -> Ok("Undefined")
      [] value = 8 -> Ok("SShort")
      [] value = 9 -> Ok("SLong")
      [] value = 10 -> Ok("SRational")
      [] value = 11 -> Ok("Float")
      [] value = 12 -> Ok("Double")
      [] OTHER -> Ok("Byte")

FieldType_from_u16(value) ==
    CASE value = 1 -> Ok("Byte")
      [] value = 2 -> Ok("Ascii")
      [] value = 3 -> Ok("Short")
      [] value = 4 -> Ok("Long")
      [] value = 5 -> Ok("Rational")
      [] value = 6 -> Ok("SByte")
      [] value = 7 -> Ok("Undefined")
      [] value = 8 -> Ok("SShort")
      [] value = 9 -> Ok("SLong")
      [] value = 10 -> Ok("SRational")
      [] value = 11 -> Ok("Float")
      [] value = 12 -> Ok("Double")
      [] OTHER -> InvalidFieldType(value)

\* mutant: a rational is sized as one long
byte_size_rational_4(field_type) ==
    CASE field_type \in {"Byte", "SByte", "Ascii", "Undefined"} -> 1
      [] field_type \in {"Short", "SShort"} -> 2
      [] field_type \in {"Long", "SLong", "Float", "Rational", "SRational"} -> 4
      [] field_type \in {"Double"} -> 8

byte_size(field_type) ==
    CASE field_type \in {"Byte", "SByte", "Ascii", "Undefined"} -> 1
      [] field_type \in {"Short", "SShort"} -> 2
      [] field_type \in {"Long", "SLong", "Float"} -> 4
      [] field_type \in {"Rational", "SRational", "Double"} -> 8

TagValue(variant, elems) == [variant |-> variant, elems |-> elems]

\* u32::to_le_bytes and u32::to_be_bytes
to_le_bytes(v) ==
    <<v % 256, (v \div 256) % 256, (v \div 65536) % 256, v \div 16777216>>
to_be_bytes(v) ==
    <<v \div 16777216, (v \div 65536) % 256, (v \div 256) % 256, v % 256>>

\* `as i8`, `as i16`, `as i32`: the same bits read as two's complement
as_i8(v) == IF v >= 128 THEN v - 256 ELSE v
as_i16(v) == IF v >= 32768 THEN v - 65536 ELSE v
as_i32(v) == IF v > 2147483647 THEN (v - 2147483647) - 2147483647 - 2 ELSE v

f32_from_bits(bits) == [f32_bits |-> bits]
f64_from_bits(bits) == [f64_bits |-> bits]

Endian_read_u64(endian, b) ==
    IF endian = "Little"
    THEN [hi |-> Endian_read_u32(endian, SubSeq(b, 5, 8)),
          lo |-> Endian_read_u32(endian, SubSeq(b, 1, 4))]
    ELSE [hi |-> Endian_read_u32(endian, SubSeq(b, 1, 4)),
          lo |-> Endian_read_u32(endian, SubSeq(b, 5, 8))]

\* a continuation byte of a UTF-8 sequence
Cont(b) == b >= 128 /\ b <= 191

\* String::from_utf8 accepts bs: well-formed UTF-8 byte sequences only
RECURSIVE from_utf8_ok(_)
from_utf8_ok(bs) ==
    IF bs = <<>> THEN TRUE
    ELSE LET b == bs[1]
             n == Len(bs) IN
         IF b <= 127 THEN from_utf8_ok(Tail(bs))
         ELSE IF b >= 194 /\ b <= 223
         THEN n >= 2 /\ Cont(bs[2]) /\ from_utf8_ok(SubSeq(bs, 3, n))
         ELSE IF b >= 224 /\ b <= 239
         THEN /\ n >= 3
              /\ Cont(bs[2])
              /\ Cont(bs[3])
              /\ (b = 224 => bs[2] >= 160)
              /\ (b = 237 => bs[2] <= 159)
              /\ from_utf8_ok(SubSeq(bs, 4, n))
         ELSE IF b >= 240 /\ b <= 244
         THEN /\ n >= 4
              /\ Cont(bs[2])
              /\ Cont(bs[3])
              /\ Cont(bs[4])
              /\ (b = 240 => bs[2] >= 144)
              /\ (b = 244 => bs[2] <= 143)
              /\ from_utf8_ok(SubSeq(bs, 5, n))
         ELSE FALSE

\* mutant: every trailing null is removed
RECURSIVE string_data_strip_all(_)
string_data_strip_all(buf) ==
    IF buf # <<>> /\ buf[Len(buf)] = 0
    THEN string_data_strip_all(SubSeq(buf, 1, Len(buf) - 1))
    ELSE buf

\* let mut string_data = data.to_vec(); if let Some(&0) = last { pop() }
string_data(buf) ==
    IF buf # <<>> /\ buf[Len(buf)] = 0
    THEN SubSeq(buf, 1, Len(buf) - 1)
    ELSE buf

\* the loop `for i in 0..count { if i*w + w > data.len() { break } ... }`:
\* the w-byte groups it reads, from iteration i on
RECURSIVE groups(_, _, _, _)
groups(buf, w, count, i) ==
    IF i >= count \/ i * w + w > Len(buf) THEN <<>>
    ELSE <<SubSeq(buf, i * w + 1, i * w + w)>> \o groups(buf, w, count, i + 1)

\* values.push(..) for each group, by variant
decode_group(field_type, endian, g) ==
    CASE field_type = "Short" -> Endian_read_u16(endian, g)
      [] field_type = "SShort" -> as_i16(Endian_read_u16(endian, g))
      [] field_type = "Long" -> Endian_read_u32(endian, g)
      [] field_type = "SLong" -> as_i32(Endian_read_u32(endian, g))
      [] field_type = "Float" -> f32_from_bits(Endian_read_u32(endian, g))
      [] field_type = "Rational" ->
            <<Endian_read_u32(endian, SubSeq(g, 1, 4)),
              Endian_read_u32(endian, SubSeq(g, 5, 8))>>
      [] field_type = "SRational" ->
            <<as_i32(Endian_read_u32(endian, SubSeq(g, 1, 4))),
              as_i32(Endian_read_u32(endian, SubSeq(g, 5, 8)))>>
      [] field_type = "Double" -> f64_from_bits(Endian_read_u64(endian, g))

\* the literal w of each variant's loop (i * w + w > data.len())
group_width(field_type) ==
    CASE field_type \in {"Short", "SShort"} -> 2
      [] field_type \in {"Long", "SLong", "Float"} -> 4
      [] field_type \in {"Rational", "SRational", "Double"} -> 8

variant_of(field_type) ==
    CASE field_type = "Byte" -> "Bytes"
      [] field_type = "Ascii" -> "Ascii"
      [] field_type = "Short" -> "Shorts"
      [] field_type = "Long" -> "Longs"
      [] field_type = "Rational" -> "Rationals"
      [] field_type = "SByte" -> "SBytes"
      [] field_type = "Undefined" -> "Undefined"
      [] field_type = "SShort" -> "SShorts"
      [] field_type = "SLong" -> "SLongs"
      [] field_type = "SRational" -> "SRationals"
      [] field_type = "Float" -> "Floats"
      [] field_type = "Double" -> "Doubles"

parse_value_from_bytes(buf, field_type, count, endian) ==
    CASE field_type \in {"Byte", "Undefined"} ->
            Ok(TagValue(variant_of(field_type), buf))
      [] field_type = "SByte" ->
            Ok(TagValue("SBytes", [k \in 1..Len(buf) |-> as_i8(buf[k])]))
      [] field_type = "Ascii" ->
            IF from_utf8_ok(string_data(buf))
            THEN Ok(TagValue("Ascii", string_data(buf)))
            ELSE InvalidString("ASCII tag")
      [] OTHER ->
            Ok(TagValue(variant_of(field_type),
                  [k \in 1..Len(groups(buf, group_width(field_type), count, 0)) |->
                      decode_group(field_type, endian,
                          groups(buf, group_width(field_type), count, 0)[k])]))

\* mutant: a payload of exactly four bytes is not inline
is_inline_below_4(total_bytes) == total_bytes < 4

\* `if total_bytes <= 4`: the value is stored in the value_offset field
is_inline(total_bytes) == total_bytes <= 4

\* mutant: the slot is always serialised least-significant byte first
slot_bytes_native(endian, value_offset) == to_le_bytes(value_offset)

\* let bytes = match endian { Little => to_le_bytes(), Big => to_be_bytes() }
slot_bytes(endian, value_offset) ==
    IF endian = "Little" THEN to_le_bytes(value_offset)
                         ELSE to_be_bytes(value_offset)

\* the inline branch of parse_tag_value
parse_inline(entry, field_type, total_bytes, endian) ==
    LET bytes == Slice(slot_bytes(endian, entry.value_offset), 0,
                       Min(total_bytes, 4)) IN
    IF ~IsOk(bytes) THEN bytes
    ELSE parse_value_from_bytes(bytes.value, field_type, entry.count, endian)

\* the offset branch of parse_tag_value, given what read_bytes_at returned
parse_at_offset(bytes, entry, field_type, endian) ==
    IF ~IsOk(bytes) THEN bytes
    ELSE parse_value_from_bytes(bytes.value, field_type, entry.count, endian)

\* TiffReader::read_bytes_at: straight to the source
TiffReader_read_bytes_at(d, offset, count) ==
    InMemorySource_read_bytes_at(d, offset, count)

\* parse_tag_value with the field type already found; returns the Result
\* and the source reads made. byte_size * count is a usize product, which
\* a 64-bit usize holds for every u32 count.
parse_typed(d, entry, field_type, endian) ==
    IF is_inline(byte_size(field_type) * entry.count)
    THEN [res |-> parse_inline(entry, field_type,
                               byte_size(field_type) * entry.count, endian),
          reads |-> <<>>]
    ELSE [res |-> parse_at_offset(
                     TiffReader_read_bytes_at(d, entry.value_offset,
                         byte_size(field_type) * entry.count),
                     entry, field_type, endian),
          reads |-> <<<<entry.value_offset, byte_size(field_type) * entry.count>>>>]

parse_tag_value(d, entry, endian) ==
    IF ~IsOk(FieldType_from_u16(entry.field_type))
    THEN [res |-> FieldType_from_u16(entry.field_type), reads |-> <<>>]
    ELSE parse_typed(d, entry, FieldType_from_u16(entry.field_type).value, endian)

-----------------------------------------------------------------------------
(* Directory queries (ifd.rs, tags.rs). An Option is None or Some(v); an    *)
(* f64 quotient is kept as its numerator and denominator.                   *)

Some(v) == [some |-> TRUE, v |-> v]
None == [some |-> FALSE]

IMAGE_WIDTH == 256
IMAGE_LENGTH == 257
BITS_PER_SAMPLE == 258
COMPRESSION == 259
PHOTOMETRIC_INTERPRETATION == 262
IMAGE_DESCRIPTION == 270
MAKE == 271
MODEL == 272
STRIP_OFFSETS == 273
SAMPLES_PER_PIXEL == 277
ROWS_PER_STRIP == 278
STRIP_BYTE_COUNTS == 279
X_RESOLUTION == 282
Y_RESOLUTION == 283
RESOLUTION_UNIT == 296
SOFTWARE == 305
DATE_TIME == 306
ARTIST == 315
TILE_WIDTH == 322
TILE_LENGTH == 323
TILE_OFFSETS == 324
TILE_BYTE_COUNTS == 325
SAMPLE_FORMAT == 339
COPYRIGHT == 33432

Compression_from_u32(value) ==
    CASE value = 1 -> Some("None")
      [] value = 2 -> Some("Ccitt1d")
      [] value = 3 -> Some("Group3Fax")
      [] value = 4 -> Some("Group4Fax")
      [] value = 5 -> Some("Lzw")
      [] value = 6 -> Some("JpegOld")
      [] value = 7 -> Some("Jpeg")
      [] value = 8 -> Some("Deflate")
      [] value = 32946 -> Some("AdobeDeflate")
      [] value = 32773 -> Some("PackBits")
      [] OTHER -> None

PhotometricInterpretation_from_u32(value) ==
    CASE value = 0 -> Some("WhiteIsZero")
      [] value = 1 -> Some("BlackIsZero")
      [] value = 2 -> Some("Rgb")
      [] value = 3 -> Some("Palette")
      [] value = 4 -> Some("TransparencyMask")
      [] value = 5 -> Some("Cmyk")
      [] value = 6 -> Some("YCbCr")
      [] value = 8 -> Some("CieLab")
      [] OTHER -> None

ResolutionUnit_from_u32(value) ==
    CASE value = 1 -> Some("None")
      [] value = 2 -> Some("Inch")
      [] value = 3 -> Some("Centimeter")
      [] OTHER -> None

SampleFormat_from_u32(value) ==
    CASE value = 1 -> Some("UInt")
      [] value = 2 -> Some("Int")
      [] value = 3 -> Some("Float")
      [] value = 4 -> Some("Undefined")
      [] OTHER -> None

\* mutant: a value of another shape is read as 0
as_u32_or_zero(v) ==
    IF v.variant \in {"Shorts", "Longs", "Bytes"} /\ v.elems # <<>>
    THEN Some(v.elems[1])
    ELSE Some(0)

as_u32(v) ==
    IF v.variant \in {"Shorts", "Longs", "Bytes"} /\ v.elems # <<>>
    THEN Some(v.elems[1])
    ELSE None

as_string(v) == IF v.variant = "Ascii" THEN Some(v.elems) ELSE None

as_u32_vec(v) ==
    IF v.variant \in {"Longs", "Shorts"} THEN Some(v.elems) ELSE None

\* num as f64 / den as f64
f64_div(num, den) == [num |-> num, den |-> den]

\* mutant: the denominator is not looked at
as_rational_f64_unchecked(v) ==
    IF v.variant \in {"Rationals", "SRationals"} /\ v.elems # <<>>
    THEN Some(f64_div(v.elems[1][1], v.elems[1][2]))
    ELSE None

as_rational_f64(v) ==
    IF v.variant \in {"Rationals", "SRationals"} /\ v.elems # <<>>
    THEN IF v.elems[1][2] # 0
         THEN Some(f64_div(v.elems[1][1], v.elems[1][2]))
         ELSE None
    ELSE None

\* mutant: the last entry with the tag is found
find_entry_last(ifd, tag) ==
    IF \E i \in 1..Len(ifd.entries) : ifd.entries[i].tag = tag
    THEN Some(ifd.entries[CHOOSE i \in 1..Len(ifd.entries) :
                 /\ ifd.entries[i].tag = tag
                 /\ \A j \in (i + 1)..Len(ifd.entries) : ifd.entries[j].tag # tag])
    ELSE None

\* self.entries.iter().find(|entry| entry.tag == tag)
find_entry(ifd, tag) ==
    IF \E i \in 1..Len(ifd.entries) : ifd.entries[i].tag = tag
    THEN Some(ifd.entries[CHOOSE i \in 1..Len(ifd.entries) :
                 /\ ifd.entries[i].tag = tag
                 /\ \A j \in 1..(i - 1) : ifd.entries[j].tag # tag])
    ELSE None

\* find_entry, then Ok(Some(parse_tag_value(entry)?)) or Ok(None)
value_of_found(found, d, endian) ==
    IF ~found.some THEN Ok(None)
    ELSE IF IsOk(parse_tag_value(d, found.v, endian).res)
    THEN Ok(Some(parse_tag_value(d, found.v, endian).res.value))
    ELSE parse_tag_value(d, found.v, endian).res

get_tag_value(ifd, tag, d, endian) == value_of_found(find_entry(ifd, tag), d, endian)

\* Ok(x?.and_then(F)): the error of x, or F applied inside the Option
and_then(x, F(_)) ==
    IF ~IsOk(x) THEN x
    ELSE IF x.value.some THEN Ok(F(x.value.v))
    ELSE Ok(None)

image_width(ifd, d, endian) ==
    and_then(get_tag_value(ifd, IMAGE_WIDTH, d, endian), as_u32)
image_height(ifd, d, endian) ==
    and_then(get_tag_value(ifd, IMAGE_LENGTH, d, endian), as_u32)
bits_per_sample(ifd, d, endian) ==
    and_then(get_tag_value(ifd, BITS_PER_SAMPLE, d, endian), as_u32_vec)
samples_per_pixel(ifd, d, endian) ==
    and_then(get_tag_value(ifd, SAMPLES_PER_PIXEL, d, endian), as_u32)
compression(ifd, d, endian) ==
    and_then(and_then(get_tag_value(ifd, COMPRESSION, d, endian), as_u32),
             Compression_from_u32)
photometric_interpretation(ifd, d, endian) ==
    and_then(and_then(get_tag_value(ifd, PHOTOMETRIC_INTERPRETATION, d, endian),
                      as_u32),
             PhotometricInterpretation_from_u32)
sample_format(ifd, d, endian) ==
    and_then(and_then(get_tag_value(ifd, SAMPLE_FORMAT, d, endian), as_u32),
             SampleFormat_from_u32)
strip_offsets(ifd, d, endian) ==
    and_then(get_tag_value(ifd, STRIP_OFFSETS, d, endian), as_u32_vec)
strip_byte_counts(ifd, d, endian) ==
    and_then(get_tag_value(ifd, STRIP_BYTE_COUNTS, d, endian), as_u32_vec)
rows_per_strip(ifd, d, endian) ==
    and_then(get_tag_value(ifd, ROWS_PER_STRIP, d, endian), as_u32)
tile_width(ifd, d, endian) ==
    and_then(get_tag_value(ifd, TILE_WIDTH, d, endian), as_u32)
tile_height(ifd, d, endian) ==
    and_then(get_tag_value(ifd, TILE_LENGTH, d, endian), as_u32)
tile_offsets(ifd, d, endian) ==
    and_then(get_tag_value(ifd, TILE_OFFSETS, d, endian), as_u32_vec)
tile_byte_counts(ifd, d, endian) ==
    and_then(get_tag_value(ifd, TILE_BYTE_COUNTS, d, endian), as_u32_vec)
x_resolution(ifd, d, endian) ==
    and_then(get_tag_value(ifd, X_RESOLUTION, d, endian), as_rational_f64)
y_resolution(ifd, d, endian) ==
    and_then(get_tag_value(ifd, Y_RESOLUTION, d, endian), as_rational_f64)
resolution_unit(ifd, d, endian) ==
    and_then(and_then(get_tag_value(ifd, RESOLUTION_UNIT, d, endian), as_u32),
             ResolutionUnit_from_u32)
image_description(ifd, d, endian) ==
    and_then(get_tag_value(ifd, IMAGE_DESCRIPTION, d, endian), as_string)
make(ifd, d, endian) ==
    and_then(get_tag_value(ifd, MAKE, d, endian), as_string)
model(ifd, d, endian) ==
    and_then(get_tag_value(ifd, MODEL, d, endian), as_string)
software(ifd, d, endian) ==
    and_then(get_tag_value(ifd, SOFTWARE, d, endian), as_string)
date_time(ifd, d, endian) ==
    and_then(get_tag_value(ifd, DATE_TIME, d, endian), as_string)
artist(ifd, d, endian) ==
    and_then(get_tag_value(ifd, ARTIST, d, endian), as_string)
copyright(ifd, d, endian) ==
    and_then(get_tag_value(ifd, COPYRIGHT, d, endian), as_string)

\* Ok(self.tile_width(reader, endian)?.is_some())
is_some(x) == IF ~IsOk(x) THEN x ELSE Ok(x.value.some)

is_tiled(ifd, d, endian) == is_some(tile_width(ifd, d, endian))

\* the first error of a sequence of `?` results, or Ok of them all
RECURSIVE try_all(_)
try_all(rs) ==
    IF rs = <<>> THEN Ok(<<>>)
    ELSE IF ~IsOk(rs[1]) THEN rs[1]
    ELSE IF ~IsOk(try_all(Tail(rs))) THEN try_all(Tail(rs))
    ELSE Ok(<<rs[1].value>> \o try_all(Tail(rs)).value)

\* mutant: any offsets tag goes with any byte-counts tag
valid_from_any_pairing(has) ==
    has[1] /\ has[2] /\ (has[3] \/ has[5]) /\ (has[4] \/ has[6])

\* has_width && has_height &&
\*     ((has_strips && has_strip_counts) || (has_tiles && has_tile_counts))
valid_from(has) ==
    has[1] /\ has[2] /\ ((has[3] /\ has[4]) \/ (has[5] /\ has[6]))

\* is_valid_tiff given the six `?`-ed is_some() results in source order
valid_of(hs) == IF ~IsOk(hs) THEN hs ELSE Ok(valid_from(hs.value))

is_valid_tiff(ifd, d, endian) ==
    valid_of(try_all(<<is_some(image_width(ifd, d, endian)),
                       is_some(image_height(ifd, d, endian)),
                       is_some(strip_offsets(ifd, d, endian)),
                       is_some(strip_byte_counts(ifd, d, endian)),
                       is_some(tile_offsets(ifd, d, endian)),
                       is_some(tile_byte_counts(ifd, d, endian))>>))

unwrap_or(opt, default) == IF opt.some THEN opt.v ELSE default

\* mutant: one bit depth whatever the number of samples
default_bits_single(samples) == <<1>>

\* vec![1; samples_per_pixel as usize]
default_bits(samples) == [k \in 1..samples |-> 1]

\* ImageSummary { .. } from the seven `?`-ed lookups in source order
summary_of(xs) ==
    IF ~IsOk(xs) THEN xs
    ELSE Ok([width |-> unwrap_or(xs.value[1], 0),
             height |-> unwrap_or(xs.value[2], 0),
             samples_per_pixel |-> unwrap_or(xs.value[3], 1),
             bits_per_sample |->
                 unwrap_or(xs.value[4], default_bits(unwrap_or(xs.value[3], 1))),
             compression |-> unwrap_or(xs.value[5], "None"),
             photometric_interpretation |-> xs.value[6],
             is_tiled |-> xs.value[7]])

image_summary(ifd, d, endian) ==
    summary_of(try_all(<<image_width(ifd, d, endian),
                         image_height(ifd, d, endian),
                         samples_per_pixel(ifd, d, endian),
                         bits_per_sample(ifd, d, endian),
                         compression(ifd, d, endian),
                         photometric_interpretation(ifd, d, endian),
                         is_tiled(ifd, d, endian)>>))

-----------------------------------------------------------------------------
(* Files the model opens: an 8-byte header followed by two directory        *)
(* blocks, every multi-byte field written in the file's byte order.         *)

to_bytes2(endian, v) ==
    IF endian = "Little" THEN <<v % 256, v \div 256>>
                         ELSE <<v \div 256, v % 256>>

to_bytes4(endian, v) ==
    IF endian = "Little"
    THEN <<v % 256, (v \div 256) % 256, (v \div 65536) % 256, v \div 16777216>>
    ELSE <<v \div 16777216, (v \div 65536) % 256, (v \div 256) % 256, v % 256>>

Marker(endian) == IF endian = "Little" THEN <<73, 73>> ELSE <<77, 77>>

HeaderBytes(endian, magic, first) ==
    Marker(endian) \o to_bytes2(endian, magic) \o to_bytes4(endian, first)

EntryBytes(endian, e) ==
    to_bytes2(endian, e.tag) \o to_bytes2(endian, e.field_type)
        \o to_bytes4(endian, e.count) \o to_bytes4(endian, e.value_offset)

\* the k-th entry written into block b: all four fields differ, and each
\* multi-byte field has distinct bytes
SampleEntry(b, k) == IfdEntry(256 + k, 2 + b, 513 + k, 67305985 + b)

RECURSIVE EntriesBytes(_, _, _, _)
EntriesBytes(endian, b, k, n) ==
    IF k > n THEN <<>>
    ELSE EntryBytes(endian, SampleEntry(b, k)) \o EntriesBytes(endian, b, k + 1, n)

BlockBytes(endian, b, n, next) ==
    to_bytes2(endian, n) \o EntriesBytes(endian, b, 1, n) \o to_bytes4(endian, next)

BlockSize(n) == 2 + 12 * n + 4

\* where a directory pointer may lead: nowhere (0), block 1, block 2, or
\* past the end of the file
Pointers(n1, n2) == {0, SIZE, SIZE + BlockSize(n1),
                     SIZE + BlockSize(n1) + BlockSize(n2) + 1}

MkFile(endian, magic, first, n1, next1, n2, next2) ==
    HeaderBytes(endian, magic, first) \o BlockBytes(endian, 1, n1, next1)
        \o BlockBytes(endian, 2, n2, next2)

FilesWith(endian, n1, n2) ==
    { MkFile(endian, MAGIC_NUMBER, p[1], n1, p[2], n2, p[3]) :
        p \in Pointers(n1, n2) \X Pointers(n1, n2) \X Pointers(n1, n2) }
    \cup { MkFile(endian, 43, SIZE, n1, 0, n2, 0) }

Files ==
    UNION { FilesWith(x[1], x[2], x[3]) :
              x \in {"Little", "Big"} \X (0..MaxEntries) \X (0..MaxEntries) }

NoHeader == [endian |-> "None", magic |-> 0, ifd_offset |-> 0]
NoCall == [op |-> "none"]
NoResult == [kind |-> "None"]

-----------------------------------------------------------------------------
(* TiffFile::from_bytes / from_reader (lib.rs): one step per read_header    *)
(* and per iteration of the `while ifd_offset != 0` loop.                   *)

Init ==
    /\ full \in Files
    /\ \E cut \in 0..Len(full) : data = SubSeq(full, 1, cut)
    /\ overflow_checks \in BOOLEAN
    /\ position = 0
    /\ touched = 0
    /\ pc = "start"
    /\ header = NoHeader
    /\ ifds = <<>>
    /\ ifd_offset = 0
    /\ call = NoCall
    /\ result = NoResult
    /\ reads = <<>>

\* let header = reader.read_header()?; let mut ifd_offset = header.ifd_offset
from_reader_header ==
    /\ pc = "start"
    /\ LET h == read_header(data, Reader(position, touched)) IN
       /\ position' = h.r.position
       /\ touched' = h.r.touched
       /\ IF IsOk(h.res)
          THEN /\ header' = h.res.value
               /\ ifd_offset' = h.res.value.ifd_offset
               /\ pc' = "loop"
               /\ result' = result
          ELSE /\ pc' = "done"
               /\ result' = h.res
               /\ UNCHANGED <<header, ifd_offset>>
    /\ UNCHANGED <<reads, full, data, overflow_checks, ifds, call>>

\* mutant: an offset that does not lie past the header ends the walk
loop_continues_past_header(offset) == offset > SIZE

\* the loop condition of from_reader
loop_continues(offset) == offset # 0

\* one iteration: read_ifd(ifd_offset)?; ifd_offset = next; ifds.push(ifd)
from_reader_loop ==
    /\ pc = "loop"
    /\ loop_continues(ifd_offset)
    /\ Len(ifds) < MaxIfds
    /\ LET d == read_ifd(data, Reader(position, touched), ifd_offset,
                         header.endian) IN
       /\ position' = d.r.position
       /\ touched' = d.r.touched
       /\ IF IsOk(d.res)
          THEN /\ ifd_offset' = d.res.value.next_ifd_offset
               /\ ifds' = Append(ifds, d.res.value)
               /\ UNCHANGED <<pc, result>>
          ELSE /\ pc' = "done"
               /\ result' = d.res
               /\ UNCHANGED <<ifd_offset, ifds>>
    /\ UNCHANGED <<reads, full, data, overflow_checks, header, call>>

\* Ok(TiffFile { reader, header, ifds })
from_reader_return ==
    /\ pc = "loop"
    /\ ~loop_continues(ifd_offset)
    /\ pc' = "done"
    /\ result' = Ok(Len(ifds))
    /\ UNCHANGED <<reads, full, data, overflow_checks, position, touched, header,
                   ifds, ifd_offset, call>>

Next == from_reader_header \/ from_reader_loop \/ from_reader_return

Spec == Init /\ [][Next]_vars

-----------------------------------------------------------------------------
(* Single calls on a fresh reader: TiffHeader::parse, read_header,          *)
(* read_bytes_at and read_ifd, each applied once to a source drawn from     *)
(* prefixes of headers (good and bad) followed by one directory.            *)

ApiFile(marker, endian, magic, first, n) ==
    marker \o to_bytes2(endian, magic) \o to_bytes4(endian, first)
        \o BlockBytes(endian, 1, n, first)

\* first-directory offsets written into headers: 0, the usual 8, and one
\* whose four bytes all differ (0x04030201)
HeaderOffsets == {0, SIZE, 67305985}

ApiFiles ==
    { ApiFile(Marker(x[1]), x[1], x[2], x[3], x[4]) :
        x \in {"Little", "Big"} \X {MAGIC_NUMBER, 43, 10752}
                \X HeaderOffsets \X (0..MaxDirEntries) }
    \cup
    { ApiFile(x[1], x[2], x[3], SIZE, 1) :
        x \in {<<73, 77>>, <<77, 73>>, <<88, 88>>} \X {"Little", "Big"}
                \X {MAGIC_NUMBER, 43} }

Call(op, offset, count, endian) ==
    [op |-> op, offset |-> offset, count |-> count, endian |-> endian]

InitApi ==
    /\ full \in ApiFiles
    /\ \E cut \in 0..Len(full) : data = SubSeq(full, 1, cut)
    /\ overflow_checks \in BOOLEAN
    /\ position = 0
    /\ touched = 0
    /\ pc = "ready"
    /\ header = NoHeader
    /\ ifds = <<>>
    /\ ifd_offset = 0
    /\ call = NoCall
    /\ result = NoResult
    /\ reads = <<>>

\* TiffHeader::parse(&data)
api_parse ==
    /\ pc = "ready"
    /\ call' = Call("parse", 0, 0, "None")
    /\ result' = TiffHeader_parse(data)
    /\ pc' = "returned"
    /\ UNCHANGED <<reads, full, data, overflow_checks, position, touched, header,
                   ifds, ifd_offset>>

\* reader.read_header()
api_read_header ==
    /\ pc = "ready"
    /\ call' = Call("read_header", 0, 0, "None")
    /\ LET h == read_header(data, Reader(position, touched)) IN
       /\ result' = h.res
       /\ position' = h.r.position
       /\ touched' = h.r.touched
    /\ pc' = "returned"
    /\ UNCHANGED <<reads, full, data, overflow_checks, header, ifds, ifd_offset>>

\* source.read_bytes_at(offset, count)
api_read_bytes_at ==
    /\ pc = "ready"
    /\ \E offset \in {0, 1, SIZE, Len(data), UsizeMax},
          count \in {0, 1, 4, SIZE, UsizeMax} :
          /\ call' = Call("read_bytes_at", offset, count, "None")
          /\ result' = InMemorySource_read_bytes_at(data, offset, count)
    /\ pc' = "returned"
    /\ UNCHANGED <<reads, full, data, overflow_checks, position, touched, header,
                   ifds, ifd_offset>>

\* reader.read_ifd(offset, endian)
api_read_ifd ==
    /\ pc = "ready"
    /\ \E offset \in {0, SIZE, SIZE + 8, UsizeMax}, endian \in {"Little", "Big"} :
          /\ call' = Call("read_ifd", offset, 0, endian)
          /\ LET d == read_ifd(data, Reader(position, touched), offset, endian) IN
             /\ result' = d.res
             /\ position' = d.r.position
             /\ touched' = d.r.touched
    /\ pc' = "returned"
    /\ UNCHANGED <<reads, full, data, overflow_checks, header, ifds, ifd_offset>>

NextApi == api_parse \/ api_read_header \/ api_read_bytes_at \/ api_read_ifd

SpecApi == InitApi /\ [][NextApi]_vars

-----------------------------------------------------------------------------
(* Decoding one entry: a file with the header, a directory of one entry at  *)
(* offset 8, then a numeric payload (bytes 1, 2, 3, ...) and a text payload. *)
(* The file is opened with the walk of from_reader, then parse_tag_value is *)
(* applied to the entry the walk read.                                      *)

\* the largest entry count of a generated entry
MaxCount == 5

\* where the numeric payload and the text payload start
PayloadAt == SIZE + BlockSize(1)
TextAt == PayloadAt + 8 * MaxCount

NumericPayload == [k \in 1..(8 * MaxCount) |-> k]

\* text payloads: terminated, doubly terminated, unterminated, with a
\* two-byte character, with a byte that is not text, with a lone lead byte
TextPayloads ==
    { <<65, 66, 67, 68, 69, 0>>, <<65, 66, 67, 68, 0, 0>>,
      <<65, 66, 67, 68, 69, 70>>, <<65, 195, 169, 66, 67, 0>>,
      <<65, 255, 66, 67, 68, 0>>, <<65, 66, 67, 68, 195, 0>> }

\* four bytes of an inline slot holding text
InlineTexts ==
    { <<65, 0, 0, 0>>, <<65, 255, 0, 0>>, <<65, 66, 67, 0>>, <<65, 195, 169, 0>> }

\* the u32 whose bytes on file, in the given order, are b
SlotValue(endian, b) == Endian_read_u32(endian, b)

\* type codes written into entries: the twelve types and codes that name none
TypeCodes == (0..13) \cup {99, 65535}

\* values written into the slot: 0, the payload address, 0x04030201 and
\* 0x01020000 (inline values, or addresses past the end of the file)
SlotValues == {0, PayloadAt, 67305985, 16908288}

TagFile(endian, e, text) ==
    HeaderBytes(endian, MAGIC_NUMBER, SIZE) \o to_bytes2(endian, 1)
        \o EntryBytes(endian, e) \o to_bytes4(endian, 0)
        \o NumericPayload \o text

TagFilesOf(endian) ==
    { TagFile(endian, IfdEntry(256, x[1], x[2], x[3]), <<65, 66, 67, 68, 69, 0>>) :
        x \in TypeCodes \X (0..MaxCount) \X SlotValues }
    \cup
    { TagFile(endian, IfdEntry(270, x[1], x[2], TextAt), x[3]) :
        x \in {1, 2, 6, 7} \X {5, 6} \X TextPayloads }
    \cup
    { TagFile(endian, IfdEntry(270, x[1], x[2], SlotValue(endian, x[3])),
              <<65, 66, 67, 68, 69, 0>>) :
        x \in {2, 6} \X (1..4) \X InlineTexts }

TagFiles == TagFilesOf("Little") \cup TagFilesOf("Big")

\* where the source is cut: inside the directory, right after it, one byte
\* short of and right after the first 8 payload bytes, one byte short of
\* the end, and not at all
Cuts(len) == {PayloadAt - 1, PayloadAt, PayloadAt + 7, PayloadAt + 8, len - 1, len}

InitTag ==
    /\ full \in TagFiles
    /\ \E cut \in Cuts(Len(full)) : data = SubSeq(full, 1, cut)
    /\ overflow_checks \in BOOLEAN
    /\ position = 0
    /\ touched = 0
    /\ pc = "start"
    /\ header = NoHeader
    /\ ifds = <<>>
    /\ ifd_offset = 0
    /\ call = NoCall
    /\ result = NoResult
    /\ reads = <<>>

TagCall(op, index, entry, endian) ==
    [op |-> op, index |-> index, entry |-> entry, endian |-> endian]

\* reader.parse_tag_value(&ifd.entries[index], endian) on the opened file
tag_parse_tag_value ==
    /\ pc = "done"
    /\ call = NoCall
    /\ IsOk(result)
    /\ ifds # <<>>
    /\ \E index \in 1..Len(ifds[1].entries), endian \in {"Little", "Big"} :
          /\ call' = TagCall("parse_tag_value", index, ifds[1].entries[index],
                             endian)
          /\ LET v == parse_tag_value(data, ifds[1].entries[index], endian) IN
             /\ result' = v.res
             /\ reads' = v.reads
    /\ UNCHANGED <<full, data, overflow_checks, position, touched, pc, header,
                   ifds, ifd_offset>>

NextTag ==
    from_reader_header \/ from_reader_loop \/ from_reader_return
        \/ tag_parse_tag_value

SpecTag == InitTag /\ [][NextTag]_vars

-----------------------------------------------------------------------------
(* Querying a directory: a file with the header, 20 payload bytes at offset *)
(* 8 (eight numeric bytes, then the text "ABCDE" with its terminator and    *)
(* zeros) and one directory at offset 28. The file is opened with the walk  *)
(* of from_reader, then one query is made on its first directory.           *)

\* the largest number of entries with the same tag in a generated directory
MaxDup == 2

DirPayload ==
    <<1, 2, 3, 4, 5, 6, 7, 8, 65, 66, 67, 68, 69, 0, 0, 0, 0, 0, 0, 0>>
DirAt == SIZE + Len(DirPayload)

\* the entry written for a tag in a given form <<kind, value>>
FormEntry(endian, tag, form) ==
    CASE form[1] = "short" ->
            IfdEntry(tag, 3, 1,
                     SlotValue(endian, to_bytes2(endian, form[2]) \o <<0, 0>>))
      [] form[1] = "shorts" ->
            IfdEntry(tag, 3, 2,
                     SlotValue(endian, to_bytes2(endian, form[2])
                                           \o to_bytes2(endian, form[2] + 8)))
      [] form[1] = "long" -> IfdEntry(tag, 4, 1, form[2])
      [] form[1] = "ascii" -> IfdEntry(tag, 2, 6, SIZE + 8)
      [] form[1] = "rational" -> IfdEntry(tag, 5, 1, SIZE)
      [] form[1] = "rationals" -> IfdEntry(tag, 5, 2, SIZE)
      [] form[1] = "srational" -> IfdEntry(tag, 10, 1, SIZE)
      [] form[1] = "rational0" -> IfdEntry(tag, 5, form[2], SIZE + 12)
      [] form[1] = "srational0" -> IfdEntry(tag, 10, form[2], SIZE + 12)
      [] form[1] = "bad" -> IfdEntry(tag, 99, 1, 0)

Absent == <<"absent", 0>>

\* the forms an entry is written in when only its shape matters
DirForms ==
    {<<"short", 5>>, <<"long", 7>>, <<"ascii", 0>>, <<"rational", 0>>, <<"bad", 0>>}

\* a directory shape is a sequence of <<tag, form>>; absent ones are skipped
Present(shape) == SelectSeq(shape, LAMBDA x : x[2] # Absent)

RECURSIVE ShapeBytes(_, _)
ShapeBytes(endian, shape) ==
    IF shape = <<>> THEN <<>>
    ELSE EntryBytes(endian, FormEntry(endian, shape[1][1], shape[1][2]))
             \o ShapeBytes(endian, Tail(shape))

DirFile(endian, shape) ==
    HeaderBytes(endian, MAGIC_NUMBER, DirAt) \o DirPayload
        \o to_bytes2(endian, Len(Present(shape)))
        \o ShapeBytes(endian, Present(shape)) \o to_bytes4(endian, 0)

\* the tags the typed accessors look up
AccessorTags ==
    {IMAGE_WIDTH, IMAGE_LENGTH, BITS_PER_SAMPLE, COMPRESSION,
     PHOTOMETRIC_INTERPRETATION, IMAGE_DESCRIPTION, MAKE, MODEL, STRIP_OFFSETS,
     SAMPLES_PER_PIXEL, ROWS_PER_STRIP, STRIP_BYTE_COUNTS, X_RESOLUTION,
     Y_RESOLUTION, RESOLUTION_UNIT, SOFTWARE, DATE_TIME, ARTIST, TILE_WIDTH,
     TILE_LENGTH, TILE_OFFSETS, TILE_BYTE_COUNTS, SAMPLE_FORMAT, COPYRIGHT}

\* one entry, of any accessor's tag in any form
SingleShapes == { <<<<x[1], x[2]>>>> : x \in AccessorTags \X DirForms }

\* a width entry, then 2..MaxDup entries with one tag in any forms
DupTags == {IMAGE_WIDTH, IMAGE_DESCRIPTION, STRIP_OFFSETS, X_RESOLUTION}

DupShapes ==
    UNION { { <<<<IMAGE_WIDTH, <<"long", 9>>>>>> \o [i \in 1..n |-> <<t, f[i]>>] :
                f \in [1..n -> DirForms] } :
            <<t, n>> \in DupTags \X (2..MaxDup) }

\* the six tags is_valid_tiff asks for, each absent or in some form
LayoutShapes ==
    { <<<<IMAGE_WIDTH, x[1]>>, <<IMAGE_LENGTH, x[2]>>, <<STRIP_OFFSETS, x[3]>>,
        <<STRIP_BYTE_COUNTS, x[4]>>, <<TILE_OFFSETS, x[5]>>,
        <<TILE_BYTE_COUNTS, x[6]>>>> :
        x \in {Absent, <<"long", 7>>} \X {Absent, <<"short", 5>>}
              \X {Absent, <<"long", 7>>, <<"ascii", 0>>}
              \X {Absent, <<"long", 7>>, <<"ascii", 0>>}
              \X {Absent, <<"long", 7>>, <<"bad", 0>>}
              \X {Absent, <<"long", 7>>, <<"bad", 0>>} }

\* the tags image_summary asks for
SummaryShapes ==
    { <<<<IMAGE_WIDTH, x[1]>>, <<BITS_PER_SAMPLE, x[2]>>, <<COMPRESSION, x[3]>>,
        <<SAMPLES_PER_PIXEL, x[4]>>, <<TILE_WIDTH, x[5]>>>> :
        x \in {Absent, <<"long", 7>>}
              \X {Absent, <<"shorts", 8>>, <<"ascii", 0>>}
              \X {Absent, <<"short", 5>>, <<"short", 99>>, <<"ascii", 0>>}
              \X {Absent, <<"short", 3>>, <<"long", 2>>}
              \X {Absent, <<"long", 7>>} }

\* a resolution as one or two rationals, unsigned or signed, and with a
\* first denominator of 0 (the eight bytes 69 0 0 0 0 0 0 0 at offset 20)
RatioShapes ==
    { <<<<x[1], x[2]>>>> :
        x \in {X_RESOLUTION, Y_RESOLUTION}
              \X {<<"rationals", 0>>, <<"srational", 0>>, <<"rational0", 1>>,
                  <<"srational0", 1>>, <<"rational0", 2>>} }

DirShapes ==
    SingleShapes \cup DupShapes \cup LayoutShapes \cup SummaryShapes
        \cup RatioShapes

DirFiles == { DirFile(x[1], x[2]) : x \in {"Little", "Big"} \X DirShapes }

InitDir ==
    /\ full \in DirFiles
    /\ data = full
    /\ overflow_checks \in BOOLEAN
    /\ position = 0
    /\ touched = 0
    /\ pc = "start"
    /\ header = NoHeader
    /\ ifds = <<>>
    /\ ifd_offset = 0
    /\ call = NoCall
    /\ result = NoResult
    /\ reads = <<>>

Accessors ==
    {"image_width", "image_height", "bits_per_sample", "samples_per_pixel",
     "compression", "photometric_interpretation", "sample_format",
     "strip_offsets", "strip_byte_counts", "rows_per_strip", "tile_width",
     "tile_height", "tile_offsets", "tile_byte_counts", "x_resolution",
     "y_resolution", "resolution_unit", "image_description", "make", "model",
     "software", "date_time", "artist", "copyright"}

\* the accessor of ImageFileDirectory with the given name
accessor(name, ifd, d, endian) ==
    CASE name = "image_width" -> image_width(ifd, d, endian)
      [] name = "image_height" -> image_height(ifd, d, endian)
      [] name = "bits_per_sample" -> bits_per_sample(ifd, d, endian)
      [] name = "samples_per_pixel" -> samples_per_pixel(ifd, d, endian)
      [] name = "compression" -> compression(ifd, d, endian)
      [] name = "photometric_interpretation" ->
            photometric_interpretation(ifd, d, endian)
      [] name = "sample_format" -> sample_format(ifd, d, endian)
      [] name = "strip_offsets" -> strip_offsets(ifd, d, endian)
      [] name = "strip_byte_counts" -> strip_byte_counts(ifd, d, endian)
      [] name = "rows_per_strip" -> rows_per_strip(ifd, d, endian)
      [] name = "tile_width" -> tile_width(ifd, d, endian)
      [] name = "tile_height" -> tile_height(ifd, d, endian)
      [] name = "tile_offsets" -> tile_offsets(ifd, d, endian)
      [] name = "tile_byte_counts" -> tile_byte_counts(ifd, d, endian)
      [] name = "x_resolution" -> x_resolution(ifd, d, endian)
      [] name = "y_resolution" -> y_resolution(ifd, d, endian)
      [] name = "resolution_unit" -> resolution_unit(ifd, d, endian)
      [] name = "image_description" -> image_description(ifd, d, endian)
      [] name = "make" -> make(ifd, d, endian)
      [] name = "model" -> model(ifd, d, endian)
      [] name = "software" -> software(ifd, d, endian)
      [] name = "date_time" -> date_time(ifd, d, endian)
      [] name = "artist" -> artist(ifd, d, endian)
      [] name = "copyright" -> copyright(ifd, d, endian)

DirCall(op, tag) == [op |-> op, tag |-> tag, endian |-> header.endian]

\* the file is open and no query has been made on it yet
CanQuery == pc = "done" /\ call = NoCall /\ IsOk(result) /\ ifds # <<>>

\* ifd.find_entry(tag)
dir_find_entry ==
    /\ CanQuery
    /\ \E tag \in DupTags :
          /\ call' = DirCall("find_entry", tag)
          /\ result' = Ok(find_entry(ifds[1], tag))
    /\ UNCHANGED <<reads, full, data, overflow_checks, position, touched, pc,
                   header, ifds, ifd_offset>>

\* ifd.<accessor>(&reader, endian), with the byte order of the header
dir_accessor ==
    /\ CanQuery
    /\ \E name \in Accessors :
          /\ call' = DirCall(name, 0)
          /\ result' = accessor(name, ifds[1], data, header.endian)
    /\ UNCHANGED <<reads, full, data, overflow_checks, position, touched, pc,
                   header, ifds, ifd_offset>>

\* ifd.is_valid_tiff(&reader, endian)
dir_is_valid_tiff ==
    /\ CanQuery
    /\ call' = DirCall("is_valid_tiff", 0)
    /\ result' = is_valid_tiff(ifds[1], data, header.endian)
    /\ UNCHANGED <<reads, full, data, overflow_checks, position, touched, pc,
                   header, ifds, ifd_offset>>

\* ifd.image_summary(&reader, endian)
dir_image_summary ==
    /\ CanQuery
    /\ call' = DirCall("image_summary", 0)
    /\ result' = image_summary(ifds[1], data, header.endian)
    /\ UNCHANGED <<reads, full, data, overflow_checks, position, touched, pc,
                   header, ifds, ifd_offset>>

NextDir ==
    from_reader_header \/ from_reader_loop \/ from_reader_return
        \/ dir_find_entry \/ dir_accessor \/ dir_is_valid_tiff
        \/ dir_image_summary

SpecDir == InitDir /\ [][NextDir]_vars

-----------------------------------------------------------------------------
(* Source and cursor operations (reader.rs), continued: the byte reads, the *)
(* trait's default reads, skip, remaining, the array reads and the string   *)
(* read. Operations of the reader return [res, r] as above; the ones taking *)
(* &self return the reader state they were given.                           *)

\* mutant: the index reported is the offset, not the end of the read
InMemorySource_read_u8_at_reports_offset(d, offset) ==
    LET end == usize_add(offset, 1) IN
    IF end.panic THEN Panic
    ELSE IF end.v > Len(d) THEN OutOfBounds(offset, Len(d))
    ELSE IF ~InRange(d, offset) THEN Panic
    ELSE Ok(d[offset + 1])

InMemorySource_read_u8_at(d, offset) ==
    LET end == usize_add(offset, 1) IN
    IF end.panic THEN Panic
    ELSE IF end.v > Len(d) THEN OutOfBounds(end.v, Len(d))
    ELSE IF ~InRange(d, offset) THEN Panic
    ELSE Ok(d[offset + 1])

\* bytes[i] of a Vec: a panic when i is not inside it
Index(bytes, i) == IF i < Len(bytes) THEN Ok(bytes[i + 1]) ELSE Panic

\* the default read_u8_at of the trait: read_bytes_at(offset, 1)?, bytes[0]
TiffDataSource_read_u8_at(d, offset) ==
    IF ~IsOk(InMemorySource_read_bytes_at(d, offset, 1))
    THEN InMemorySource_read_bytes_at(d, offset, 1)
    ELSE Index(InMemorySource_read_bytes_at(d, offset, 1).value, 0)

\* the default read_u16_at of the trait
TiffDataSource_read_u16_at(d, offset, endian) ==
    IF ~IsOk(InMemorySource_read_bytes_at(d, offset, 2))
    THEN InMemorySource_read_bytes_at(d, offset, 2)
    ELSE IF Len(InMemorySource_read_bytes_at(d, offset, 2).value) < 2 THEN Panic
    ELSE Ok(Endian_read_u16(endian,
                InMemorySource_read_bytes_at(d, offset, 2).value))

\* the default read_u32_at of the trait
TiffDataSource_read_u32_at(d, offset, endian) ==
    IF ~IsOk(InMemorySource_read_bytes_at(d, offset, 4))
    THEN InMemorySource_read_bytes_at(d, offset, 4)
    ELSE IF Len(InMemorySource_read_bytes_at(d, offset, 4).value) < 4 THEN Panic
    ELSE Ok(Endian_read_u32(endian,
                InMemorySource_read_bytes_at(d, offset, 4).value))

\* a call that takes &self
Stateless(r, v) == [res |-> v, r |-> r]

read_u8(d, r) == Stateful(r, 1, InMemorySource_read_u8_at(d, r.position))

\* self.seek(self.position + count)
skip(d, r, count) ==
    IF usize_add(r.position, count).panic THEN [res |-> Panic, r |-> r]
    ELSE seek(d, r, usize_add(r.position, count).v)

\* self.source.len().saturating_sub(self.position)
remaining(d, r) == IF Len(d) >= r.position THEN Len(d) - r.position ELSE 0

\* the loop of read_u16_array: todo iterations left, result so far
RECURSIVE read_u16_loop(_, _, _, _, _)
read_u16_loop(d, r, endian, todo, acc) ==
    IF todo = 0 THEN [res |-> Ok(acc), r |-> r]
    ELSE AndThen(read_u16(d, r, endian), LAMBDA x :
            read_u16_loop(d, x.r, endian, todo - 1, Append(acc, x.res.value)))

\* Vec::with_capacity(count) of the array reads allocates only; counts are
\* kept far below the capacity limit
read_u16_array(d, r, count, endian) == read_u16_loop(d, r, endian, count, <<>>)

RECURSIVE read_u32_loop(_, _, _, _, _)
read_u32_loop(d, r, endian, todo, acc) ==
    IF todo = 0 THEN [res |-> Ok(acc), r |-> r]
    ELSE AndThen(read_u32(d, r, endian), LAMBDA x :
            read_u32_loop(d, x.r, endian, todo - 1, Append(acc, x.res.value)))

read_u32_array(d, r, count, endian) == read_u32_loop(d, r, endian, count, <<>>)

\* source.read_u16_at(offset + i * 2, endian)? of iteration i
u16_at_step(d, offset, i, endian) ==
    IF usize_add(offset, i * 2).panic THEN Panic
    ELSE InMemorySource_read_u16_at(d, usize_add(offset, i * 2).v, endian)

\* the loop `for i in 0..count` of read_u16_array_at, from iteration i on
RECURSIVE read_u16_at_loop(_, _, _, _, _, _)
read_u16_at_loop(d, offset, count, endian, i, acc) ==
    IF i >= count THEN Ok(acc)
    ELSE IF ~IsOk(u16_at_step(d, offset, i, endian))
    THEN u16_at_step(d, offset, i, endian)
    ELSE read_u16_at_loop(d, offset, count, endian, i + 1,
                          Append(acc, u16_at_step(d, offset, i, endian).value))

\* mutant: the array is read through the cursor, which is left after it
read_u16_array_at_seeking(d, r, offset, count, endian) ==
    AndThen(seek(d, r, offset), LAMBDA sk :
        read_u16_array(d, sk.r, count, endian))

read_u16_array_at(d, r, offset, count, endian) ==
    Stateless(r, read_u16_at_loop(d, offset, count, endian, 0, <<>>))

u32_at_step(d, offset, i, endian) ==
    IF usize_add(offset, i * 4).panic THEN Panic
    ELSE InMemorySource_read_u32_at(d, usize_add(offset, i * 4).v, endian)

RECURSIVE read_u32_at_loop(_, _, _, _, _, _)
read_u32_at_loop(d, offset, count, endian, i, acc) ==
    IF i >= count THEN Ok(acc)
    ELSE IF ~IsOk(u32_at_step(d, offset, i, endian))
    THEN u32_at_step(d, offset, i, endian)
    ELSE read_u32_at_loop(d, offset, count, endian, i + 1,
                          Append(acc, u32_at_step(d, offset, i, endian).value))

read_u32_array_at(d, r, offset, count, endian) ==
    Stateless(r, read_u32_at_loop(d, offset, count, endian, 0, <<>>))

\* the loop of read_ascii_string: read_u8()? until a null or todo bytes
RECURSIVE read_ascii_loop(_, _, _, _)
read_ascii_loop(d, r, todo, bytes) ==
    IF todo = 0 THEN [res |-> Ok(bytes), r |-> r]
    ELSE AndThen(read_u8(d, r), LAMBDA byte :
            IF byte.res.value = 0 THEN [res |-> Ok(bytes), r |-> byte.r]
            ELSE read_ascii_loop(d, byte.r, todo - 1,
                                 Append(bytes, byte.res.value)))

\* mutant: the terminator is left unread
read_ascii_string_keeps_null(d, r, max_length) ==
    AndThen(read_ascii_loop(d, r, max_length, <<>>), LAMBDA bytes :
        [res |-> IF from_utf8_ok(bytes.res.value) THEN Ok(bytes.res.value)
                 ELSE InvalidString("ASCII string"),
         r |-> Reader(r.position + Len(bytes.res.value), bytes.r.touched)])

read_ascii_string(d, r, max_length) ==
    AndThen(read_ascii_loop(d, r, max_length, <<>>), LAMBDA bytes :
        [res |-> IF from_utf8_ok(bytes.res.value) THEN Ok(bytes.res.value)
                 ELSE InvalidString("ASCII string"),
         r |-> bytes.r])

-----------------------------------------------------------------------------
(* Sequences of calls on one reader: a source holding a header, an empty    *)
(* directory at offset 8 and six bytes of text at offset 14 (or a prefix of *)
(* it). SpecCur calls the cursor operations in any order; SpecSrc calls the *)
(* offset-addressed reads, the trait's default reads and the decoder in any *)
(* order, with seeks in between.                                            *)

\* the largest element count of an array read
MaxArray == 2
\* the largest max_length of a string read
MaxText == 4

\* the text "AB", an empty text, and "C" followed by a byte that is no
\* text, with no terminator
CurText == <<65, 66, 0, 0, 67, 255>>

TextStart == SIZE + BlockSize(0)

CurFile(endian, text) ==
    HeaderBytes(endian, MAGIC_NUMBER, SIZE) \o to_bytes2(endian, 0)
        \o to_bytes4(endian, 0) \o text

InitCur ==
    /\ full = CurFile("Little", CurText)
    /\ \E cut \in {SIZE + 3, Len(full)} : data = SubSeq(full, 1, cut)
    /\ overflow_checks \in BOOLEAN
    /\ position = 0
    /\ touched = 0
    /\ pc = "cursor"
    /\ header = NoHeader
    /\ ifds = <<>>
    /\ ifd_offset = 0
    /\ call = NoCall
    /\ result = NoResult
    /\ reads = <<>>

\* the reader as the call finds it
Cursor == Reader(position, touched)

\* the call c returns x.res and leaves the reader in state x.r
Returns(c, x) ==
    /\ pc = "cursor"
    /\ call' = c
    /\ result' = x.res
    /\ position' = x.r.position
    /\ touched' = x.r.touched
    /\ UNCHANGED <<reads, full, data, overflow_checks, pc, header, ifds,
                   ifd_offset>>

\* offsets and counts handed to the calls
SeekTargets == {0, SIZE, TextStart, Len(data), Len(data) + 1, UsizeMax}
SkipCounts == {0, 1, 2, UsizeMax}
ByteCounts == {0, 2, UsizeMax}
Offsets ==
    {0, TextStart, Len(data), UsizeMax - 1, UsizeMax}
        \cup (IF Len(data) > 0 THEN {Len(data) - 1} ELSE {})
Orders == {"Little", "Big"}

\* the n bytes at offset hold no byte above 127: 32-bit reads are made on
\* such bytes only, which keeps every word read below 2^31
WordsFit(offset, n) ==
    IF offset >= Len(data) THEN TRUE
    ELSE \A k \in (offset + 1)..Min(offset + n, Len(data)) : data[k] < 128

\* entries handed to the decoder: an inline short, two longs at offset 0
CurEntries == {IfdEntry(IMAGE_WIDTH, 3, 1, 7), IfdEntry(IMAGE_WIDTH, 4, 2, 0)}

cur_seek ==
    \E p \in SeekTargets :
        Returns(Call("seek", p, 0, "None"), seek(data, Cursor, p))

cur_skip ==
    \E c \in SkipCounts :
        Returns(Call("skip", 0, c, "None"), skip(data, Cursor, c))

\* reader.remaining()
cur_remaining ==
    Returns(Call("remaining", 0, 0, "None"),
            Stateless(Cursor, Ok(remaining(data, Cursor))))

cur_read_u8 == Returns(Call("read_u8", 0, 0, "None"), read_u8(data, Cursor))

cur_read_u16 ==
    \E endian \in Orders :
        Returns(Call("read_u16", 0, 0, endian), read_u16(data, Cursor, endian))

cur_read_u32 ==
    \E endian \in Orders :
        /\ WordsFit(position, 4)
        /\ Returns(Call("read_u32", 0, 0, endian), read_u32(data, Cursor, endian))

cur_read_bytes ==
    \E n \in ByteCounts :
        Returns(Call("read_bytes", 0, n, "None"), read_bytes(data, Cursor, n))

cur_read_u16_array ==
    \E n \in 0..MaxArray, endian \in Orders :
        Returns(Call("read_u16_array", 0, n, endian),
                read_u16_array(data, Cursor, n, endian))

cur_read_u32_array ==
    \E n \in 0..MaxArray, endian \in Orders :
        /\ WordsFit(position, 4 * n)
        /\ Returns(Call("read_u32_array", 0, n, endian),
                read_u32_array(data, Cursor, n, endian))

cur_read_ascii_string ==
    \E max_length \in 0..MaxText :
        Returns(Call("read_ascii_string", 0, max_length, "None"),
                read_ascii_string(data, Cursor, max_length))

cur_read_header ==
    Returns(Call("read_header", 0, 0, "None"), read_header(data, Cursor))

cur_read_ifd ==
    \E offset \in {0, SIZE}, endian \in Orders :
        Returns(Call("read_ifd", offset, 0, endian),
                read_ifd(data, Cursor, offset, endian))

NextCur ==
    \/ cur_seek \/ cur_skip \/ cur_remaining
    \/ cur_read_u8 \/ cur_read_u16 \/ cur_read_u32 \/ cur_read_bytes
    \/ cur_read_u16_array \/ cur_read_u32_array \/ cur_read_ascii_string
    \/ cur_read_header \/ cur_read_ifd

SpecCur == InitCur /\ [][NextCur]_vars

-----------------------------------------------------------------------------
(* Offset-addressed calls *)

InitSrc ==
    /\ full \in {CurFile("Little", CurText), CurFile("Big", CurText)}
    /\ \E cut \in {0, SIZE + 3, Len(full)} : data = SubSeq(full, 1, cut)
    /\ overflow_checks \in BOOLEAN
    /\ position = 0
    /\ touched = 0
    /\ pc = "cursor"
    /\ header = NoHeader
    /\ ifds = <<>>
    /\ ifd_offset = 0
    /\ call = NoCall
    /\ result = NoResult
    /\ reads = <<>>

src_seek ==
    \E p \in SeekTargets :
        Returns(Call("seek", p, 0, "None"), seek(data, Cursor, p))

\* reader.read_u8_at(offset): self.source.read_u8_at(offset)
src_read_u8_at ==
    \E offset \in Offsets :
        Returns(Call("read_u8_at", offset, 0, "None"),
                Stateless(Cursor, InMemorySource_read_u8_at(data, offset)))

src_read_u16_at ==
    \E offset \in Offsets, endian \in Orders :
        Returns(Call("read_u16_at", offset, 0, endian),
                Stateless(Cursor, InMemorySource_read_u16_at(data, offset, endian)))

src_read_u32_at ==
    \E offset \in Offsets, endian \in Orders :
        /\ WordsFit(offset, 4)
        /\ Returns(Call("read_u32_at", offset, 0, endian),
                Stateless(Cursor, InMemorySource_read_u32_at(data, offset, endian)))

src_read_bytes_at ==
    \E offset \in Offsets, count \in ByteCounts :
        Returns(Call("read_bytes_at", offset, count, "None"),
                Stateless(Cursor, TiffReader_read_bytes_at(data, offset, count)))

src_read_u16_array_at ==
    \E offset \in Offsets, n \in 0..MaxArray, endian \in Orders :
        Returns(Call("read_u16_array_at", offset, n, endian),
                read_u16_array_at(data, Cursor, offset, n, endian))

src_read_u32_array_at ==
    \E offset \in Offsets, n \in 0..MaxArray, endian \in Orders :
        /\ WordsFit(offset, 4 * n)
        /\ Returns(Call("read_u32_array_at", offset, n, endian),
                read_u32_array_at(data, Cursor, offset, n, endian))

\* the reads a source that keeps the trait's defaults performs
default_read_u8_at ==
    \E offset \in Offsets :
        Returns(Call("default_read_u8_at", offset, 0, "None"),
                Stateless(Cursor, TiffDataSource_read_u8_at(data, offset)))

default_read_u16_at ==
    \E offset \in Offsets, endian \in Orders :
        Returns(Call("default_read_u16_at", offset, 0, endian),
                Stateless(Cursor, TiffDataSource_read_u16_at(data, offset, endian)))

default_read_u32_at ==
    \E offset \in Offsets, endian \in Orders :
        /\ WordsFit(offset, 4)
        /\ Returns(Call("default_read_u32_at", offset, 0, endian),
                Stateless(Cursor, TiffDataSource_read_u32_at(data, offset, endian)))

\* reader.parse_tag_value(&entry, endian)
src_parse_tag_value ==
    \E entry \in CurEntries, endian \in Orders :
        Returns(TagCall("parse_tag_value", 0, entry, endian),
                Stateless(Cursor, parse_tag_value(data, entry, endian).res))

\* ifd.image_width(&reader, endian) on a directory of one entry
src_image_width ==
    \E entry \in CurEntries, endian \in Orders :
        Returns(TagCall("image_width", 0, entry, endian),
                Stateless(Cursor,
                    image_width(ImageFileDirectory(<<entry>>, 0), data, endian)))

NextSrc ==
    \/ src_seek
    \/ src_read_u8_at \/ src_read_u16_at \/ src_read_u32_at \/ src_read_bytes_at
    \/ src_read_u16_array_at \/ src_read_u32_array_at
    \/ default_read_u8_at \/ default_read_u16_at \/ default_read_u32_at
    \/ src_parse_tag_value \/ src_image_width

SpecSrc == InitSrc /\ [][NextSrc]_vars

-----------------------------------------------------------------------------
(* TiffFile queries (lib.rs), on files of no, one or two directories opened *)
(* with the walk of from_reader.                                            *)

\* mutant: the byte order of the machine, not the file's
TiffFile_endianness_native(hdr) == "Little"

\* self.header.endianness()
TiffFile_endianness(hdr) == hdr.endian

\* Ok(Some(x?)) for a summary x
some_summary(x) == IF IsOk(x) THEN Ok(Some(x.value)) ELSE x

main_image_info(hdr, dirs, d) ==
    IF dirs # <<>>
    THEN some_summary(image_summary(dirs[1], d, TiffFile_endianness(hdr)))
    ELSE Ok(None)

\* the loop `for ifd in &self.ifds` of all_image_info, from directory i on
RECURSIVE all_summaries(_, _, _, _, _)
all_summaries(hdr, dirs, d, i, summaries) ==
    IF i > Len(dirs) THEN Ok(summaries)
    ELSE IF ~IsOk(image_summary(dirs[i], d, TiffFile_endianness(hdr)))
    THEN image_summary(dirs[i], d, TiffFile_endianness(hdr))
    ELSE all_summaries(hdr, dirs, d, i + 1,
             Append(summaries,
                    image_summary(dirs[i], d, TiffFile_endianness(hdr)).value))

all_image_info(hdr, dirs, d) == all_summaries(hdr, dirs, d, 1, <<>>)

\* mutant: every directory has to be valid
TiffFile_is_valid_every(hdr, dirs, d) ==
    IF dirs = <<>> THEN Ok(FALSE)
    ELSE IF \E i \in 1..Len(dirs) :
               is_valid_tiff(dirs[i], d, TiffFile_endianness(hdr)) # Ok(TRUE)
    THEN Ok(FALSE)
    ELSE Ok(TRUE)

TiffFile_is_valid(hdr, dirs, d) ==
    IF dirs = <<>> THEN Ok(FALSE)
    ELSE is_valid_tiff(dirs[1], d, TiffFile_endianness(hdr))

\* directory shapes: width, height and a strip pair; the same without the
\* height; the same with a tile tag of no known type; a width of no known
\* type; no entry at all
Strips ==
    <<<<IMAGE_WIDTH, <<"long", 7>>>>, <<IMAGE_LENGTH, <<"short", 5>>>>,
      <<STRIP_OFFSETS, <<"long", 7>>>>, <<STRIP_BYTE_COUNTS, <<"long", 7>>>>>>
NoHeight == <<Strips[1], Strips[3], Strips[4]>>
BadTile == Append(Strips, <<TILE_OFFSETS, <<"bad", 0>>>>)
BadWidth == <<<<IMAGE_WIDTH, <<"bad", 0>>>>>>

FirstShapes == {Strips, NoHeight, BadTile, <<>>}
SecondShapes == {Strips, NoHeight, BadWidth, <<>>}

NoDirFile(endian) == HeaderBytes(endian, MAGIC_NUMBER, 0) \o DirPayload

TwoDirFile(endian, s1, s2) ==
    HeaderBytes(endian, MAGIC_NUMBER, DirAt) \o DirPayload
        \o to_bytes2(endian, Len(s1)) \o ShapeBytes(endian, s1)
        \o to_bytes4(endian, DirAt + BlockSize(Len(s1)))
        \o to_bytes2(endian, Len(s2)) \o ShapeBytes(endian, s2)
        \o to_bytes4(endian, 0)

FileFiles ==
    { NoDirFile(endian) : endian \in {"Little", "Big"} }
    \cup { DirFile(x[1], x[2]) : x \in {"Little", "Big"} \X FirstShapes }
    \cup { TwoDirFile(x[1], x[2], x[3]) :
             x \in {"Little", "Big"} \X FirstShapes \X SecondShapes }

InitFile ==
    /\ full \in FileFiles
    /\ data = full
    /\ overflow_checks \in BOOLEAN
    /\ position = 0
    /\ touched = 0
    /\ pc = "start"
    /\ header = NoHeader
    /\ ifds = <<>>
    /\ ifd_offset = 0
    /\ call = NoCall
    /\ result = NoResult
    /\ reads = <<>>

\* from_reader returned Ok(TiffFile { reader, header, ifds })
Opened == pc = "done" /\ header # NoHeader /\ ifd_offset = 0

\* the query c on the opened file returns x; queries take &self
Answers(c, x) ==
    /\ Opened
    /\ call' = [op |-> c]
    /\ result' = x
    /\ UNCHANGED <<reads, full, data, overflow_checks, position, touched, pc,
                   header, ifds, ifd_offset>>

file_endianness == Answers("endianness", Ok(TiffFile_endianness(header)))

file_main_image_info ==
    Answers("main_image_info", main_image_info(header, ifds, data))

file_all_image_info ==
    Answers("all_image_info", all_image_info(header, ifds, data))

file_is_valid == Answers("is_valid", TiffFile_is_valid(header, ifds, data))

NextFile ==
    from_reader_header \/ from_reader_loop \/ from_reader_return
        \/ file_endianness \/ file_main_image_info \/ file_all_image_info
        \/ file_is_valid

SpecFile == InitFile /\ [][NextFile]_vars

-----------------------------------------------------------------------------
(* What the file format says, read straight off the bytes by offset         *)
(* arithmetic (no cursor): the yardstick the reader is compared with.       *)

RECURSIVE LittleValue(_)
LittleValue(bs) == IF bs = <<>> THEN 0 ELSE Head(bs) + 256 * LittleValue(Tail(bs))

RECURSIVE BigValue(_)
BigValue(bs) ==
    IF bs = <<>> THEN 0
    ELSE 256 * BigValue(SubSeq(bs, 1, Len(bs) - 1)) + bs[Len(bs)]

\* the unsigned value of the n bytes at offset off of d, in byte order e
FieldAt(d, off, n, e) ==
    IF e = "Little" THEN LittleValue(SubSeq(d, off + 1, off + n))
                    ELSE BigValue(SubSeq(d, off + 1, off + n))

DirCount(d, off, e) == FieldAt(d, off, 2, e)
DirEnd(d, off, e) == off + 2 + 12 * DirCount(d, off, e) + 4

\* a whole directory lies inside d at offset off
DirHolds(d, off, e) == off + 2 <= Len(d) /\ DirEnd(d, off, e) <= Len(d)

DirectEntry(d, off, e) ==
    [tag |-> FieldAt(d, off, 2, e), field_type |-> FieldAt(d, off + 2, 2, e),
     count |-> FieldAt(d, off + 4, 4, e), value_offset |-> FieldAt(d, off + 8, 4, e)]

DirectDir(d, off, e) ==
    [entries |-> [i \in 1..DirCount(d, off, e) |->
                     DirectEntry(d, off + 2 + 12 * (i - 1), e)],
     next_ifd_offset |-> FieldAt(d, DirEnd(d, off, e) - 4, 4, e)]

\* the byte order a file's marker names
OrderOf(d) == IF d[1] = 73 THEN "Little" ELSE "Big"

ValidHeader(d) ==
    /\ Len(d) >= 8
    /\ <<d[1], d[2]>> \in {<<73, 73>>, <<77, 77>>}
    /\ FieldAt(d, 2, 2, OrderOf(d)) = 42

\* the end of the last byte of any directory on the chain that starts at
\* off, or -1 when the chain leaves the file or does not end within fuel hops
RECURSIVE ChainEnd(_, _, _, _)
ChainEnd(d, off, e, fuel) ==
    IF off = 0 THEN 8
    ELSE IF fuel = 0 \/ ~DirHolds(d, off, e) THEN -1
    ELSE LET rest == ChainEnd(d, DirectDir(d, off, e).next_ifd_offset, e, fuel - 1)
         IN IF rest = -1 THEN -1 ELSE Max(DirEnd(d, off, e), rest)

FileChainEnd(d) == ChainEnd(d, FieldAt(d, 4, 4, OrderOf(d)), OrderOf(d), MaxIfds)

WellFormed(d) == ValidHeader(d) /\ FileChainEnd(d) # -1

\* the offsets at which the walk has read a directory so far
VisitedOffsets ==
    IF ifds = <<>> THEN {}
    ELSE {header.ifd_offset} \cup
         {ifds[i].next_ifd_offset : i \in 1..(Len(ifds) - 1)}

-----------------------------------------------------------------------------
(* Claims *)

\* C1 (as claimed): when the walk is about to read a directory offset it has
\* already read, it stops and returns MalformedFile instead of going on.
C1_RevisitStopsWithMalformedFile ==
    [][(pc = "loop" /\ loop_continues(ifd_offset) /\ ifd_offset \in VisitedOffsets)
         => (pc' = "done" /\ result'.kind = "MalformedFile")]_vars

\* the offset the i-th collected directory was to be read at
ChainOffset(i) ==
    IF i = 1 THEN header.ifd_offset ELSE ifds[i - 1].next_ifd_offset

\* C2: when from_reader succeeds, ifds is the directory chain in walk order:
\* ifds[1] is the directory at header.ifd_offset, each next one the directory
\* at its predecessor's next_ifd_offset, only the last has next offset 0, and
\* a header offset of 0 gives no directory and no directory read.
C2_ChainInWalkOrder ==
    (pc = "done" /\ IsOk(result)) =>
        /\ result.value = Len(ifds)
        /\ (header.ifd_offset = 0 <=> ifds = <<>>)
        /\ (header.ifd_offset = 0 => position = SIZE /\ touched = SIZE)
        /\ \A i \in 1..Len(ifds) :
              /\ ChainOffset(i) # 0
              /\ DirHolds(data, ChainOffset(i), header.endian)
              /\ ifds[i] = DirectDir(data, ChainOffset(i), header.endian)
        /\ (ifds # <<>> => ifds[Len(ifds)].next_ifd_offset = 0)

C2_Witness ==
    /\ pc = "done"
    /\ IsOk(result)
    /\ Len(ifds) = 2
    /\ ifds[1].entries # <<>>

\* C7: opening a strict prefix of a well-formed file that cuts the header or
\* a directory on the chain never panics, never reads at or past the prefix
\* length, is not still walking after MaxIfds directories, and returns
\* InsufficientData or OutOfBounds.
C7_TruncatedInputFails ==
    (WellFormed(full) /\ Len(data) < FileChainEnd(full)) =>
        /\ result.kind # "Panic"
        /\ touched <= Len(data)
        /\ ~(pc = "loop" /\ loop_continues(ifd_offset) /\ Len(ifds) >= MaxIfds)
        /\ (pc = "done" => result.kind \in {"InsufficientData", "OutOfBounds"})

C7_Witness ==
    /\ WellFormed(full)
    /\ Len(data) < FileChainEnd(full)
    /\ pc = "done"
    /\ Len(ifds) = 1
    /\ ifds[1].entries # <<>>
    /\ result.kind = "OutOfBounds"
    /\ position > ifds[1].next_ifd_offset + 2

\* C3: parsing a header built from a byte order, magic 42 and an offset,
\* each written in that order, returns exactly that order, 42 and that
\* offset, whatever bytes follow the first 8.
C3_HeaderRoundTrip ==
    (call.op = "parse" /\ Len(data) >= SIZE) =>
        \A e \in {"Little", "Big"}, off \in HeaderOffsets :
            SubSeq(data, 1, SIZE) = HeaderBytes(e, MAGIC_NUMBER, off) =>
                result = Ok([endian |-> e, magic |-> MAGIC_NUMBER,
                             ifd_offset |-> off])

C3_Witness ==
    /\ call.op = "parse"
    /\ Len(data) > SIZE
    /\ SubSeq(data, 1, SIZE) = HeaderBytes("Big", MAGIC_NUMBER, 67305985)
    /\ IsOk(result)

Markers == {<<73, 73>>, <<77, 77>>}

\* C4: parse of at least 8 bytes whose first two are neither II nor MM fails
\* with InvalidByteOrder carrying exactly those two bytes, whatever follows.
C4_BadMarkerReported ==
    (call.op = "parse" /\ Len(data) >= SIZE /\ <<data[1], data[2]>> \notin Markers)
        => result = InvalidByteOrder(<<data[1], data[2]>>)

C4_Witness ==
    /\ call.op = "parse"
    /\ Len(data) >= SIZE
    /\ <<data[1], data[2]>> = <<73, 77>>
    /\ <<data[3], data[4]>> # <<42, 0>>
    /\ result.kind = "InvalidByteOrder"

\* C5: parse of at least 8 bytes with a valid marker whose bytes 2-3, read in
\* the marker's order, are not 42 fails with InvalidMagic carrying that value.
C5_BadMagicReported ==
    (/\ call.op = "parse"
     /\ Len(data) >= SIZE
     /\ <<data[1], data[2]>> \in Markers
     /\ FieldAt(data, 2, 2, OrderOf(data)) # 42)
        => result = InvalidMagic(FieldAt(data, 2, 2, OrderOf(data)))

C5_Witness ==
    /\ call.op = "parse"
    /\ Len(data) >= SIZE
    /\ SubSeq(data, 1, 4) = <<77, 77, 42, 0>>
    /\ result = InvalidMagic(10752)

\* C6 (as claimed): on fewer than 8 bytes both TiffHeader::parse and
\* read_header fail with InsufficientData(needed = 8, available = n).
C6_ShortInputIsInsufficientData ==
    (call.op \in {"parse", "read_header"} /\ Len(data) < SIZE) =>
        /\ result.kind = "InsufficientData"
        /\ result.needed = SIZE
        /\ result.available = Len(data)

\* C6 (amended): on fewer than 8 bytes TiffHeader::parse fails with
\* InsufficientData(needed = 8, available = n) whatever the bytes are, while
\* read_header fails in its 8-byte read with OutOfBounds(position + 8, n)
\* and leaves the position where it was.
C6_ShortInputParseVsReadHeader ==
    Len(data) < SIZE =>
        /\ call.op = "parse" =>
              result = InsufficientData("reading TIFF header", SIZE, Len(data))
        /\ call.op = "read_header" =>
              /\ result = OutOfBounds(position + SIZE, Len(data))
              /\ position = 0

C6_Witness ==
    /\ call.op = "parse"
    /\ Len(data) = 5
    /\ <<data[1], data[2]>> = <<88, 88>>
    /\ result.kind = "InsufficientData"

\* offset + count <= len, without overflowing
Fits(d, offset, count) == offset <= Len(d) /\ count <= Len(d) - offset

\* C8 (as claimed): read_bytes_at returns data[offset .. offset+count) when
\* offset + count <= len and fails with OutOfBounds(max = len) otherwise.
C8_ReadBytesAtIsBoundsChecked ==
    call.op = "read_bytes_at" =>
        IF Fits(data, call.offset, call.count)
        THEN result = Ok(SubSeq(data, call.offset + 1, call.offset + call.count))
        ELSE result.kind = "OutOfBounds" /\ result.max = Len(data)

\* C9: read_ifd at an offset where the source holds a whole directory of n
\* entries returns n entries, entry i decoded in the given order from the 12
\* bytes at offset+2+12i, and the next offset from the 4 bytes after them.
C9_ReadIfdDecodesDirectory ==
    (/\ call.op = "read_ifd"
     /\ call.offset <= Len(data)
     /\ DirHolds(data, call.offset, call.endian))
        => /\ result = Ok(DirectDir(data, call.offset, call.endian))
           /\ Len(result.value.entries) = DirCount(data, call.offset, call.endian)
           /\ position = DirEnd(data, call.offset, call.endian)

C9_Witness ==
    /\ call.op = "read_ifd"
    /\ call.endian = "Big"
    /\ IsOk(result)
    /\ Len(result.value.entries) = 2
    /\ result.value.next_ifd_offset = 67305985

\* the operation an error says it was raised in
ErrorContext(r) == IF "operation" \in DOMAIN r THEN r.operation ELSE "none"

\* C10 (as claimed): an error raised while read_ifd reads the entry count,
\* an entry or the next offset carries the context "reading IFD" or
\* "reading IFD entry".
C10_ReadIfdErrorsCarryContext ==
    (call.op = "read_ifd" /\ call.offset <= Len(data) /\ ~IsOk(result))
        => ErrorContext(result) \in {"reading IFD", "reading IFD entry"}

-----------------------------------------------------------------------------
(* Claims about the tag value decoder, with what the format says written    *)
(* independently of the decoder: sizes by type code, payload bytes taken    *)
(* from the file, elements read off the payload by offset arithmetic.       *)

\* bytes per element for type codes 1..12
SizeOfCode == <<1, 1, 2, 4, 8, 1, 1, 2, 4, 8, 4, 8>>

\* the variant decoded for type codes 1..12
VariantOfCode ==
    <<"Bytes", "Ascii", "Shorts", "Longs", "Rationals", "SBytes", "Undefined",
      "SShorts", "SLongs", "SRationals", "Floats", "Doubles">>

\* parse_tag_value has been applied to an entry of the opened file
TagQuery == call.op = "parse_tag_value"

\* ... to an entry whose type code names a field type
TypedQuery == TagQuery /\ call.entry.field_type \in 1..12

TotalBytes == SizeOfCode[call.entry.field_type] * call.entry.count

\* the address of the queried entry's 4-byte value slot in the file
SlotAddr == header.ifd_offset + 2 + 12 * (call.index - 1) + 8

Reversed(b) == [k \in 1..Len(b) |-> b[Len(b) + 1 - k]]

\* the slot's four bytes in the order the query was made in: the bytes on
\* file when that is the file's order, and those bytes backwards otherwise
SlotOnFile ==
    IF call.endian = header.endian THEN SubSeq(data, SlotAddr + 1, SlotAddr + 4)
    ELSE Reversed(SubSeq(data, SlotAddr + 1, SlotAddr + 4))

\* the source holds the whole offset-addressed payload
PayloadInSource == call.entry.value_offset + TotalBytes <= Len(data)

\* the payload of the queried entry, by the inline and the offset rule
Payload ==
    IF TotalBytes <= 4 THEN SubSeq(SlotOnFile, 1, TotalBytes)
    ELSE SubSeq(data, call.entry.value_offset + 1,
                call.entry.value_offset + TotalBytes)

Signed(v, bits) == IF v >= 2 ^ (bits - 1) THEN v - 2 ^ bits ELSE v

\* the 64-bit value of 8 bytes as its high and low halves
Halves(p, e) ==
    IF e = "Little" THEN [hi |-> FieldAt(p, 4, 4, e), lo |-> FieldAt(p, 0, 4, e)]
                    ELSE [hi |-> FieldAt(p, 0, 4, e), lo |-> FieldAt(p, 4, 4, e)]

\* element k (from 0) of payload p for type code c in byte order e
ElementAt(p, c, k, e) ==
    CASE c \in {1, 2, 7} -> p[k + 1]
      [] c = 6 -> Signed(p[k + 1], 8)
      [] c = 3 -> FieldAt(p, 2 * k, 2, e)
      [] c = 8 -> Signed(FieldAt(p, 2 * k, 2, e), 16)
      [] c \in {4, 9} -> FieldAt(p, 4 * k, 4, e)
      [] c = 11 -> [f32_bits |-> FieldAt(p, 4 * k, 4, e)]
      [] c \in {5, 10} -> <<FieldAt(p, 8 * k, 4, e), FieldAt(p, 8 * k + 4, 4, e)>>
      [] c = 12 -> [f64_bits |-> Halves(SubSeq(p, 8 * k + 1, 8 * k + 8), e)]

\* the n elements of payload p
Elements(p, c, n, e) == [k \in 1..n |-> ElementAt(p, c, k - 1, e)]

\* C11 (as claimed): with total_bytes = size(type) x count, an entry of at
\* most 4 bytes is decoded without a source read and always successfully;
\* a larger one makes exactly one read of total_bytes bytes at value_offset.
C11_InlineAlwaysSucceeds ==
    TypedQuery =>
        IF TotalBytes <= 4
        THEN reads = <<>> /\ IsOk(result)
        ELSE reads = <<<<call.entry.value_offset, TotalBytes>>>>

\* C11 (amended): an entry of at most 4 bytes is decoded without a source
\* read and never fails with a source error, whatever value_offset is; the
\* only failure is InvalidString, for an Ascii entry whose slot bytes are
\* not text. A larger entry makes exactly one read, of total_bytes bytes at
\* value_offset.
C11_InlineNeedsNoSource ==
    TypedQuery =>
        IF TotalBytes <= 4
        THEN /\ reads = <<>>
             /\ result.kind \in {"Ok", "InvalidString"}
             /\ (result.kind = "InvalidString" => call.entry.field_type = 2)
        ELSE /\ reads = <<<<call.entry.value_offset, TotalBytes>>>>
             /\ (IsOk(result) => PayloadInSource)

\* Long with count 1 is inline although its slot value is no address in the
\* source
C11_Witness ==
    /\ TagQuery
    /\ call.entry.field_type = 4
    /\ call.entry.count = 1
    /\ call.entry.value_offset > Len(data)
    /\ reads = <<>>
    /\ IsOk(result)

\* C12: for an inline entry decoded in the byte order of the file it was
\* read from, re-serialising value_offset gives the four slot bytes as they
\* are on file, and the decoded elements are those of the first total_bytes
\* of these bytes.
C12_InlineSlotAsOnFile ==
    (TypedQuery /\ TotalBytes <= 4 /\ call.endian = header.endian) =>
        /\ slot_bytes(call.endian, call.entry.value_offset)
              = SubSeq(data, SlotAddr + 1, SlotAddr + 4)
        /\ (call.entry.field_type # 2 =>
              /\ IsOk(result)
              /\ result.value.elems =
                    Elements(SubSeq(data, SlotAddr + 1, SlotAddr + TotalBytes),
                             call.entry.field_type, call.entry.count, call.endian))

\* a big-endian Short 0x0102 in slot bytes 01 02 00 00 decodes to 0x0102
C12_Witness ==
    /\ TagQuery
    /\ header.endian = "Big"
    /\ call.endian = "Big"
    /\ call.entry.field_type = 3
    /\ call.entry.count = 1
    /\ SubSeq(data, SlotAddr + 1, SlotAddr + 4) = <<1, 2, 0, 0>>
    /\ result = Ok(TagValue("Shorts", <<258>>))

\* C13: a type code outside 1..12 gives InvalidFieldType(found = code), no
\* value and no source read, whatever count and value_offset are; a code in
\* 1..12 never gives that error and decodes to the variant of its type.
C13_UnknownTypeCodeFails ==
    TagQuery =>
        IF call.entry.field_type \in 1..12
        THEN /\ result.kind # "InvalidFieldType"
             /\ (IsOk(result) =>
                    result.value.variant = VariantOfCode[call.entry.field_type])
        ELSE /\ result = InvalidFieldType(call.entry.field_type)
             /\ reads = <<>>

C13_Witness ==
    /\ TagQuery
    /\ call.entry.field_type = 0
    /\ call.entry.count = MaxCount
    /\ call.entry.value_offset = PayloadAt
    /\ Len(data) = Len(full)
    /\ result = InvalidFieldType(0)

\* C14 (as claimed): whenever parse_tag_value succeeds the returned value
\* has entry.count elements.
C14_ElementCountIsCount ==
    (TagQuery /\ IsOk(result)) => Len(result.value.elems) = call.entry.count

\* C14 (amended): whenever parse_tag_value succeeds, a value that is not
\* Ascii has entry.count elements (pairs for rationals, scalars for floats
\* and doubles), each the element at its place in the payload; an Ascii
\* value has count bytes, or count - 1 when the payload ends with a null.
C14_ElementCountUnlessAscii ==
    (TagQuery /\ IsOk(result)) =>
        IF call.entry.field_type = 2
        THEN Len(result.value.elems) =
                IF Payload # <<>> /\ Payload[Len(Payload)] = 0
                THEN call.entry.count - 1 ELSE call.entry.count
        ELSE result.value.elems =
                Elements(Payload, call.entry.field_type, call.entry.count,
                         call.endian)

\* two rationals are two pairs, not sixteen bytes
C14_Witness ==
    /\ TagQuery
    /\ call.entry.field_type = 5
    /\ call.entry.count = 2
    /\ call.endian = "Little"
    /\ IsOk(result)
    /\ result.value.elems = <<<<67305985, 134678021>>, <<202050057, 269422093>>>>

\* an offset-addressed entry whose payload the source holds only in part
PayloadCutShort ==
    /\ TypedQuery
    /\ TotalBytes > 4
    /\ call.entry.value_offset <= Len(data)
    /\ ~PayloadInSource

\* C15 (as claimed): when the source holds fewer payload bytes than count
\* implies, decoding succeeds with the complete elements that fit.
C15_ShortPayloadDecodesLeniently ==
    PayloadCutShort =>
        /\ IsOk(result)
        /\ Len(result.value.elems) =
              (Len(data) - call.entry.value_offset)
                  \div SizeOfCode[call.entry.field_type]

\* C15 (amended): when the source holds fewer payload bytes than count
\* implies, parse_tag_value fails in its read with
\* OutOfBounds(value_offset + total_bytes, len) and returns no elements.
C15_ShortPayloadIsOutOfBounds ==
    PayloadCutShort =>
        result = OutOfBounds(call.entry.value_offset + TotalBytes, Len(data))

\* two longs of which the source holds all but the last byte
C15_Witness ==
    /\ PayloadCutShort
    /\ call.entry.field_type = 4
    /\ call.entry.count = 2
    /\ call.entry.value_offset = PayloadAt
    /\ Len(data) = PayloadAt + 7
    /\ result.kind = "OutOfBounds"

\* text over the bytes the model writes: ASCII, and the two-byte character
\* C3 A9; FF and a lone C3 or A9 are not text
IsText(b) ==
    \A k \in 1..Len(b) :
        \/ b[k] < 128
        \/ b[k] = 195 /\ k < Len(b) /\ b[k + 1] = 169
        \/ b[k] = 169 /\ k > 1 /\ b[k - 1] = 195

\* the payload without one trailing null
Unterminated(p) ==
    IF p # <<>> /\ p[Len(p)] = 0 THEN SubSeq(p, 1, Len(p) - 1) ELSE p

\* C16: an Ascii entry whose payload is at hand decodes to the payload
\* without exactly one trailing null (all of it when it ends with no null,
\* one null kept when it ends with two), and fails with InvalidString when
\* these bytes are not text.
C16_AsciiStripsOneNull ==
    (TagQuery /\ call.entry.field_type = 2 /\ (TotalBytes > 4 => PayloadInSource))
        => IF IsText(Unterminated(Payload))
           THEN result = Ok(TagValue("Ascii", Unterminated(Payload)))
           ELSE result.kind = "InvalidString"

\* a payload ending in two nulls keeps one
C16_Witness ==
    /\ TagQuery
    /\ call.entry.field_type = 2
    /\ call.entry.count = 6
    /\ result = Ok(TagValue("Ascii", <<65, 66, 67, 68, 0>>))

-----------------------------------------------------------------------------
(* Claims about the directory queries, with the tag each accessor looks up, *)
(* the shape it asks for and the types that have that shape written         *)
(* independently of the accessors.                                          *)

\* the entries of the queried directory and the places of a tag among them
Entries == ifds[1].entries
WithTag(tag) == {i \in 1..Len(Entries) : Entries[i].tag = tag}
FirstIndex(tag) == CHOOSE i \in WithTag(tag) : \A j \in WithTag(tag) : i <= j
FirstWith(tag) == Entries[FirstIndex(tag)]

\* the tag id each accessor looks up
TagLookedUp(name) ==
    CASE name = "image_width" -> 256
      [] name = "image_height" -> 257
      [] name = "bits_per_sample" -> 258
      [] name = "compression" -> 259
      [] name = "photometric_interpretation" -> 262
      [] name = "image_description" -> 270
      [] name = "make" -> 271
      [] name = "model" -> 272
      [] name = "strip_offsets" -> 273
      [] name = "samples_per_pixel" -> 277
      [] name = "rows_per_strip" -> 278
      [] name = "strip_byte_counts" -> 279
      [] name = "x_resolution" -> 282
      [] name = "y_resolution" -> 283
      [] name = "resolution_unit" -> 296
      [] name = "software" -> 305
      [] name = "date_time" -> 306
      [] name = "artist" -> 315
      [] name = "tile_width" -> 322
      [] name = "tile_height" -> 323
      [] name = "tile_offsets" -> 324
      [] name = "tile_byte_counts" -> 325
      [] name = "sample_format" -> 339
      [] name = "copyright" -> 33432

\* the shape each accessor asks for
ShapeAsked(name) ==
    CASE name \in {"bits_per_sample", "strip_offsets", "strip_byte_counts",
                   "tile_offsets", "tile_byte_counts"} -> "vector"
      [] name \in {"x_resolution", "y_resolution"} -> "ratio"
      [] name \in {"image_description", "make", "model", "software", "date_time",
                   "artist", "copyright"} -> "text"
      [] OTHER -> "number"

\* an entry of a known type whose decoded variant has the shape
Coercible(shape, e) ==
    CASE shape = "number" -> e.field_type \in {1, 3, 4} /\ e.count > 0
      [] shape = "vector" -> e.field_type \in {3, 4}
      [] shape = "text" -> e.field_type = 2
      [] shape = "ratio" -> e.field_type \in {5, 10} /\ e.count > 0

\* the directory yields a value of the shape for the tag
Yields(tag, shape) == WithTag(tag) # {} /\ Coercible(shape, FirstWith(tag))

\* C17: a typed accessor returns no value when its tag is absent, and no
\* value (not an error, not a default) when the first entry with its tag
\* decodes to a variant that has not the shape it asks for.
C17_AccessorGivesNoneWhenAbsentOrUncoercible ==
    call.op \in Accessors =>
        /\ WithTag(TagLookedUp(call.op)) = {} => result = Ok(None)
        /\ (/\ WithTag(TagLookedUp(call.op)) # {}
            /\ FirstWith(TagLookedUp(call.op)).field_type \in 1..12
            /\ ~Coercible(ShapeAsked(call.op), FirstWith(TagLookedUp(call.op))))
              => result = Ok(None)

\* an Ascii-typed width queried as a number
C17_Witness ==
    /\ call.op = "image_width"
    /\ WithTag(256) # {}
    /\ FirstWith(256).field_type = 2
    /\ result = Ok(None)

\* C18: find_entry returns the first entry with the tag in on-file order
\* (none when there is none), and every accessor answers as it would on a
\* directory holding only the first entry with its tag.
C18_FirstEntryWithTagIsUsed ==
    /\ call.op = "find_entry" =>
          result = Ok(IF WithTag(call.tag) = {} THEN None
                      ELSE Some(FirstWith(call.tag)))
    /\ (call.op \in Accessors /\ WithTag(TagLookedUp(call.op)) # {}) =>
          result = accessor(call.op,
                            ImageFileDirectory(<<FirstWith(TagLookedUp(call.op))>>, 0),
                            data, call.endian)

\* a description that is text in its first entry and a long in its second
C18_Witness ==
    /\ call.op = "image_description"
    /\ Cardinality(WithTag(270)) = 2
    /\ FirstWith(270).field_type = 2
    /\ \E i \in WithTag(270) : Entries[i].field_type = 4
    /\ result = Ok(Some(<<65, 66, 67, 68, 69>>))

\* width and height and one complete layout pair
ValidLayout ==
    /\ Yields(256, "number")
    /\ Yields(257, "number")
    /\ \/ Yields(273, "vector") /\ Yields(279, "vector")
       \/ Yields(324, "vector") /\ Yields(325, "vector")

\* C19 (as claimed): is_valid_tiff returns true exactly when the directory
\* yields a width and a height and both strip tags or both tile tags.
C19_ValidExactlyWhenLayoutComplete ==
    call.op = "is_valid_tiff" => (result = Ok(TRUE) <=> ValidLayout)

\* the tags is_valid_tiff looks up, in the order it does
LookedUpByValid == <<256, 257, 273, 279, 324, 325>>

\* the places in that order whose first entry has no known type
Undecodable ==
    {i \in 1..6 : /\ WithTag(LookedUpByValid[i]) # {}
                  /\ FirstWith(LookedUpByValid[i]).field_type \notin 1..12}

\* C19 (amended): when all six lookups decode, is_valid_tiff returns true
\* exactly when the directory yields a width and a height and both strip
\* tags or both tile tags, and false otherwise; when one of the six tags
\* does not decode it returns the error of the first such lookup, even if
\* the other layout pair is complete.
C19_ValidOrFirstLookupError ==
    call.op = "is_valid_tiff" =>
        IF Undecodable = {}
        THEN result = Ok(ValidLayout)
        ELSE result = InvalidFieldType(
                 FirstWith(LookedUpByValid[
                     CHOOSE i \in Undecodable : \A j \in Undecodable : i <= j]).field_type)

\* only one half of each layout pair: strip offsets with tile byte counts
C19_Witness ==
    /\ call.op = "is_valid_tiff"
    /\ Yields(256, "number")
    /\ Yields(257, "number")
    /\ Yields(273, "vector")
    /\ WithTag(279) = {}
    /\ WithTag(324) = {}
    /\ Yields(325, "vector")
    /\ result = Ok(FALSE)

\* the address of the value slot of the first entry with the tag
SlotOf(tag) == DirAt + 2 + 12 * (FirstIndex(tag) - 1) + 8

\* the number the first entry with the tag declares inline
Declared(tag) ==
    FieldAt(data, SlotOf(tag), SizeOfCode[FirstWith(tag).field_type], call.endian)

\* the samples per pixel the directory declares, 1 when it declares none
DeclaredSamples == IF Yields(277, "number") THEN Declared(277) ELSE 1

\* C20: image_summary of a directory without a bits-per-sample tag reports
\* one entry of value 1 per declared sample, of a directory without a
\* compression tag reports compression None, and reports the decoded values
\* of the width, samples, bit depths and compression that are present.
C20_SummaryDefaults ==
    (call.op = "image_summary" /\ IsOk(result)) =>
        /\ result.value.samples_per_pixel = DeclaredSamples
        /\ WithTag(258) = {} =>
              /\ Len(result.value.bits_per_sample) = DeclaredSamples
              /\ \A k \in 1..DeclaredSamples : result.value.bits_per_sample[k] = 1
        /\ WithTag(259) = {} => result.value.compression = "None"
        /\ Yields(256, "number") => result.value.width = Declared(256)
        /\ Yields(258, "vector") =>
              result.value.bits_per_sample =
                  Elements(SubSeq(data, SlotOf(258) + 1, SlotOf(258) + 4),
                           FirstWith(258).field_type, FirstWith(258).count,
                           call.endian)
        /\ (Yields(259, "number") /\ Declared(259) = 5) =>
              result.value.compression = "Lzw"

\* three declared samples, no bit depths and no compression
C20_Witness ==
    /\ call.op = "image_summary"
    /\ WithTag(258) = {}
    /\ WithTag(259) = {}
    /\ Yields(277, "number")
    /\ IsOk(result)
    /\ result.value.bits_per_sample = <<1, 1, 1>>
    /\ result.value.compression = "None"

-----------------------------------------------------------------------------
(* Rationals *)

\* the entry a resolution accessor decodes, and its first pair on file
RatioEntry == FirstWith(TagLookedUp(call.op))
RatioWord(k) == FieldAt(data, RatioEntry.value_offset + 4 * k, 4, call.endian)
RatioPart(k) ==
    IF RatioEntry.field_type = 10 /\ RatioWord(k) > 2147483647
    THEN (RatioWord(k) - 2147483647) - 2147483647 - 2
    ELSE RatioWord(k)

\* C21: x_resolution and y_resolution of an unsigned or signed rational
\* entry give no value when the first pair's denominator is 0 and the first
\* pair's numerator over its denominator otherwise; no quotient with a
\* denominator of 0 is ever formed.
C21_RationalZeroDenominatorIsNone ==
    call.op \in {"x_resolution", "y_resolution"} =>
        /\ (IsOk(result) /\ result.value.some) => result.value.v.den # 0
        /\ Yields(TagLookedUp(call.op), "ratio") =>
              result = Ok(IF RatioPart(1) = 0 THEN None
                          ELSE Some(f64_div(RatioPart(0), RatioPart(1))))

\* a signed resolution 69/0, and two unsigned ones whose first is 69/0
C21_Witness ==
    /\ call.op = "x_resolution"
    /\ WithTag(X_RESOLUTION) # {}
    /\ RatioEntry.field_type \in {5, 10}
    /\ RatioEntry.count >= 1
    /\ RatioPart(1) = 0
    /\ RatioPart(0) # 0
    /\ result = Ok(None)

-----------------------------------------------------------------------------
(* Offset-addressed reads and the cursor *)

\* the calls that take the reader by shared reference
OffsetCalls ==
    {"read_u8_at", "read_u16_at", "read_u32_at", "read_bytes_at",
     "read_u16_array_at", "read_u32_array_at", "parse_tag_value", "image_width"}

\* what the call c returns when it is the first call made on a new reader
\* over the bytes d
AnswerOn(d, c) ==
    CASE c.op = "read_u8_at" -> InMemorySource_read_u8_at(d, c.offset)
      [] c.op = "read_u16_at" -> InMemorySource_read_u16_at(d, c.offset, c.endian)
      [] c.op = "read_u32_at" -> InMemorySource_read_u32_at(d, c.offset, c.endian)
      [] c.op = "read_bytes_at" ->
            InMemorySource_read_bytes_at(d, c.offset, c.count)
      [] c.op = "read_u16_array_at" ->
            read_u16_array_at(d, Reader(0, 0), c.offset, c.count, c.endian).res
      [] c.op = "read_u32_array_at" ->
            read_u32_array_at(d, Reader(0, 0), c.offset, c.count, c.endian).res
      [] c.op = "parse_tag_value" -> parse_tag_value(d, c.entry, c.endian).res
      [] c.op = "image_width" ->
            image_width(ImageFileDirectory(<<c.entry>>, 0), d, c.endian)

-----------------------------------------------------------------------------
(* Cursor calls *)

\* the variants of TiffError
TypedErrors ==
    {"InsufficientData", "InvalidMagic", "InvalidByteOrder", "OutOfBounds",
     "InvalidFieldType", "InvalidString"}

\* C24 (as claimed): every cursor call returns a value or a typed error,
\* never a panic, whatever machine word it is given; a skip or a read of
\* usize::MAX bytes, which no source holds, returns OutOfBounds.
C24_NoPanicForWordArguments ==
    call.op # "none" =>
        /\ result.kind \in {"Ok"} \cup TypedErrors
        /\ (call.op \in {"skip", "read_bytes"} /\ call.count = UsizeMax)
              => result.kind = "OutOfBounds"

\* C25 (as claimed): seek(p) succeeds and sets position to p when p <= len
\* and fails with OutOfBounds(p, len), position unchanged, when p > len;
\* skip(c) does what seek(position + c) does, so it moves by c when
\* position + c <= len and fails with OutOfBounds otherwise.
C25_SeekAndSkip ==
    [][/\ call'.op = "seek" =>
             IF call'.offset <= Len(data)
             THEN result' = Ok(<<>>) /\ position' = call'.offset
             ELSE /\ result' = OutOfBounds(call'.offset, Len(data))
                  /\ position' = position
       /\ call'.op = "skip" =>
             IF call'.count <= Len(data) - position
             THEN result' = Ok(<<>>) /\ position' = position + call'.count
             ELSE /\ result'.kind = "OutOfBounds"
                  /\ result'.max = Len(data)
                  /\ position' = position]_vars

\* the reads of a fixed or given number of bytes, and that number
SizedReads == {"read_u8", "read_u16", "read_u32", "read_bytes"}
SizeRead(c) ==
    CASE c.op = "read_u8" -> 1
      [] c.op = "read_u16" -> 2
      [] c.op = "read_u32" -> 4
      [] c.op = "read_bytes" -> c.count
      [] c.op = "read_header" -> SIZE

\* what the bytes at offset p say to the read c
ValueRead(c, p) ==
    CASE c.op = "read_u8" -> data[p + 1]
      [] c.op = "read_u16" -> FieldAt(data, p, 2, c.endian)
      [] c.op = "read_u32" -> FieldAt(data, p, 4, c.endian)
      [] c.op = "read_bytes" -> SubSeq(data, p + 1, p + c.count)

\* C26 (as claimed): a successful read_u8, read_u16, read_u32, read_bytes(n)
\* or read_header returns the value at the position held before the call and
\* advances by its size; a failing one returns an error and leaves position
\* unchanged.
C26_StatefulReadsAdvanceOrStay ==
    [][call'.op \in SizedReads \cup {"read_header"} =>
          IF IsOk(result')
          THEN /\ position' = position + SizeRead(call')
               /\ call'.op \in SizedReads => result'.value = ValueRead(call', position)
          ELSE /\ result'.kind \in TypedErrors
               /\ position' = position]_vars

\* C26 (amended): read_u8, read_u16, read_u32 and read_bytes(n) return the
\* value at the old position and advance by their size when that many bytes
\* remain; otherwise they return no value and leave position unchanged, the
\* error being OutOfBounds(position + n, len) whenever position + n is a
\* machine word. read_header advances by 8 whenever 8 bytes remain, also
\* when it then fails on their content, and stays only when they do not.
C26_StatefulReadsAdvanceByBytesRead ==
    [][/\ call'.op \in SizedReads =>
             IF SizeRead(call') <= Len(data) - position
             THEN /\ result' = Ok(ValueRead(call', position))
                  /\ position' = position + SizeRead(call')
             ELSE /\ ~IsOk(result')
                  /\ position' = position
                  /\ SizeRead(call') <= UsizeMax - position =>
                        result' = OutOfBounds(position + SizeRead(call'), Len(data))
       /\ call'.op = "read_header" =>
             IF SIZE <= Len(data) - position
             THEN /\ result' = TiffHeader_parse(SubSeq(data, position + 1,
                                                       position + SIZE))
                  /\ position' = position + SIZE
             ELSE /\ result' = OutOfBounds(position + SIZE, Len(data))
                  /\ position' = position]_vars

\* a header read at offset 8, where the bytes are no header
C26_Witness ==
    /\ call.op = "read_header"
    /\ position = 2 * SIZE
    /\ result.kind = "InvalidByteOrder"

-----------------------------------------------------------------------------
(* Strings read at the cursor *)

\* of the next m bytes at offset p, those the source holds, and the places
\* (counted from p) of the nulls among them
Within(p, m) == Min(m, Len(data) - p)
Nulls(p, m) == {j \in 0..(Within(p, m) - 1) : data[p + j + 1] = 0}
FirstNull(p, m) == CHOOSE j \in Nulls(p, m) : \A i \in Nulls(p, m) : j <= i

\* the bytes a string read of at most m bytes at offset p collects, and
\* where it leaves the cursor
Collected(p, m) ==
    IF Nulls(p, m) # {} THEN SubSeq(data, p + 1, p + FirstNull(p, m))
    ELSE SubSeq(data, p + 1, p + Within(p, m))
CursorAfter(p, m) ==
    IF Nulls(p, m) # {} THEN p + FirstNull(p, m) + 1 ELSE p + m

\* bytes that are all ASCII; bytes one of which occurs in no UTF-8 text
AllAscii(bs) == \A k \in 1..Len(bs) : bs[k] < 128
NeverText(bs) == \E k \in 1..Len(bs) : bs[k] >= 245

\* C27 (as claimed): read_ascii_string(max) returns the bytes from position
\* up to the first null within the next max bytes and leaves position just
\* past that null; with no null within max bytes it returns those max bytes
\* and advances by max.
C27_StringUpToNullOrMax ==
    [][call'.op = "read_ascii_string" =>
          /\ result' = Ok(Collected(position, call'.count))
          /\ position' = CursorAfter(position, call'.count)]_vars

\* C27 (amended): as claimed when the bytes collected are text and, with no
\* null, max bytes remain. Bytes that are no UTF-8 text are collected and
\* the cursor moved as claimed, but the call returns InvalidString; when the
\* source ends before a null and before max bytes, the call returns
\* OutOfBounds(len + 1, len) and leaves position at len.
C27_StringUpToNullOrMaxIfText ==
    [][call'.op = "read_ascii_string" =>
          IF Nulls(position, call'.count) = {}
             /\ Within(position, call'.count) < call'.count
          THEN /\ result' = OutOfBounds(Len(data) + 1, Len(data))
               /\ position' = Len(data)
          ELSE /\ position' = CursorAfter(position, call'.count)
               /\ AllAscii(Collected(position, call'.count)) =>
                     result' = Ok(Collected(position, call'.count))
               /\ NeverText(Collected(position, call'.count)) =>
                     result' = InvalidString("ASCII string")]_vars

\* "AB" was read and the cursor stands past its terminator
C27_Witness ==
    /\ call.op = "read_ascii_string"
    /\ call.count = MaxText
    /\ result = Ok(<<65, 66>>)
    /\ position = TextStart + 3

-----------------------------------------------------------------------------
(* The cursor stays inside the source *)

\* C28: after any sequence of cursor calls (seek, skip, the reads of bytes,
\* words, arrays and strings, read_header, read_ifd), succeeding or not,
\* 0 <= position <= len and remaining() is len - position.
C28_PositionWithinSource ==
    /\ 0 <= position
    /\ position <= Len(data)
    /\ remaining(data, Cursor) = Len(data) - position
    /\ call.op = "remaining" => result = Ok(Len(data) - position)

\* an array read that failed at its second element, one byte before the end
C28_Witness ==
    /\ call.op = "read_u16_array"
    /\ call.count = 2
    /\ result.kind = "OutOfBounds"
    /\ Len(data) = Len(full)
    /\ position = Len(data) - 1

-----------------------------------------------------------------------------
(* The source's own reads and the trait's default reads *)

\* what the override and what the default returns for the read c
ByOverride(c) ==
    CASE c.op \in {"read_u8_at", "default_read_u8_at"} ->
            InMemorySource_read_u8_at(data, c.offset)
      [] c.op \in {"read_u16_at", "default_read_u16_at"} ->
            InMemorySource_read_u16_at(data, c.offset, c.endian)
      [] c.op \in {"read_u32_at", "default_read_u32_at"} ->
            InMemorySource_read_u32_at(data, c.offset, c.endian)
ByDefault(c) ==
    CASE c.op \in {"read_u8_at", "default_read_u8_at"} ->
            TiffDataSource_read_u8_at(data, c.offset)
      [] c.op \in {"read_u16_at", "default_read_u16_at"} ->
            TiffDataSource_read_u16_at(data, c.offset, c.endian)
      [] c.op \in {"read_u32_at", "default_read_u32_at"} ->
            TiffDataSource_read_u32_at(data, c.offset, c.endian)

WordReads ==
    {"read_u8_at", "read_u16_at", "read_u32_at", "default_read_u8_at",
     "default_read_u16_at", "default_read_u32_at"}
WordSize(c) ==
    CASE c.op \in {"read_u8_at", "default_read_u8_at"} -> 1
      [] c.op \in {"read_u16_at", "default_read_u16_at"} -> 2
      [] c.op \in {"read_u32_at", "default_read_u32_at"} -> 4

\* C30: for every source, offset and byte order, InMemorySource's read_u8_at,
\* read_u16_at and read_u32_at return what the trait's default
\* implementations return on the same bytes: the same value when the word
\* lies inside the source, the same OutOfBounds(offset + size, len) when it
\* does not.
C30_OverridesAgreeWithDefaults ==
    call.op \in WordReads =>
        /\ result = ByOverride(call)
        /\ result = ByDefault(call)
        /\ Fits(data, call.offset, WordSize(call)) =>
              result = Ok(IF WordSize(call) = 1 THEN data[call.offset + 1]
                          ELSE FieldAt(data, call.offset, WordSize(call),
                                       call.endian))
        /\ (~Fits(data, call.offset, WordSize(call))
              /\ call.offset <= UsizeMax - WordSize(call)) =>
              result = OutOfBounds(call.offset + WordSize(call), Len(data))

\* a short asked for at the very end of a source
C30_Witness ==
    /\ call.op = "read_u16_at"
    /\ Len(data) > 0
    /\ call.offset = Len(data)
    /\ result = OutOfBounds(Len(data) + 2, Len(data))
    /\ result = TiffDataSource_read_u16_at(data, call.offset, call.endian)

-----------------------------------------------------------------------------
(* TiffFile queries                                                         *)

\* the directory the header points at, read off the bytes
MainOnFile ==
    DirectDir(data, FieldAt(data, 4, 4, OrderOf(data)), OrderOf(data))

\* the tags of the i-th directory of the opened file
TagsOf(i) == {ifds[i].entries[k].tag : k \in 1..Len(ifds[i].entries)}

\* C29: TiffFile::is_valid returns false when the file has no directory and
\* otherwise exactly what is_valid_tiff returns for the first directory,
\* whatever the later directories hold.
C29_ValidityOfFirstDirectoryOnly ==
    call.op = "is_valid" =>
        IF ifds = <<>>
        THEN result = Ok(FALSE)
        ELSE result = is_valid_tiff(MainOnFile, data, OrderOf(data))

\* a valid first directory followed by one without a height, one without
\* any entry, or one whose width does not decode
C29_Witness ==
    /\ call.op = "is_valid"
    /\ Len(ifds) = 2
    /\ IMAGE_LENGTH \notin TagsOf(2)
    /\ result = Ok(TRUE)

\* the offset of the i-th directory of the chain, read off the bytes
RECURSIVE OffsetOnFile(_)
OffsetOnFile(i) ==
    IF i = 1 THEN FieldAt(data, 4, 4, OrderOf(data))
    ELSE DirectDir(data, OffsetOnFile(i - 1), OrderOf(data)).next_ifd_offset

\* the i-th directory of the chain in the byte order of the marker
DirOnFile(i) == DirectDir(data, OffsetOnFile(i), OrderOf(data))

\* its summary in the byte order of the marker
SummaryOnFile(i) == image_summary(DirOnFile(i), data, OrderOf(data))

\* the directories whose summary is an error
NoSummary == {i \in 1..Len(ifds) : ~IsOk(SummaryOnFile(i))}

\* what the query named by call returns when it works in the marker's order
InMarkerOrder ==
    CASE call.op = "endianness" -> Ok(OrderOf(data))
      [] call.op = "main_image_info" ->
           IF ifds = <<>> THEN Ok(None)
           ELSE IF IsOk(SummaryOnFile(1)) THEN Ok(Some(SummaryOnFile(1).value))
           ELSE SummaryOnFile(1)
      [] call.op = "all_image_info" ->
           IF NoSummary = {}
           THEN Ok([i \in 1..Len(ifds) |-> SummaryOnFile(i).value])
           ELSE SummaryOnFile(CHOOSE i \in NoSummary : \A j \in NoSummary : i <= j)
      [] call.op = "is_valid" ->
           IF ifds = <<>> THEN Ok(FALSE)
           ELSE is_valid_tiff(DirOnFile(1), data, OrderOf(data))

FileQueries == {"endianness", "main_image_info", "all_image_info", "is_valid"}

\* C23: the byte order of an opened file is the one its first two bytes
\* name; the walk of from_reader reads every directory in it; every later
\* endianness, summary and validity query answers in it; and no query
\* changes the header, the directories or the bytes.
C23_ByteOrderFixedByMarker ==
    /\ [](/\ header # NoHeader => header.endian = OrderOf(data)
          /\ \A i \in 1..Len(ifds) : ifds[i] = DirOnFile(i)
          /\ call.op \in FileQueries => result = InMarkerOrder)
    /\ [][call'.op \in FileQueries =>
              /\ header' = header
              /\ header'.endian = OrderOf(data')
              /\ ifds' = ifds
              /\ data' = data]_vars

\* both summaries of a big-endian file of two directories
C23_Witness ==
    /\ OrderOf(data) = "Big"
    /\ call.op = "all_image_info"
    /\ Len(ifds) = 2
    /\ IsOk(result)
    /\ result.value[1].width = 7
    /\ result.value[1].height = 5
    /\ result.value[2].height = 5

====
